---- MODULE Spec2Model ----
(***************************************************************************)
(* zen-signal: the recording / caching engine of src/src/recorder.rs.      *)
(*                                                                         *)
(* Threads: the ingest thread (add_point), the control thread              *)
(* (start_recording, stop_recording, close_recording, drop), reader        *)
(* threads (read_range) and the writer thread (writer_loop), which is the  *)
(* single consumer of the command queue.  RecorderState lives behind one   *)
(* mutex; the recording file is reached through the hdf5 library.          *)
(***************************************************************************)
EXTENDS Integers, Sequences, FiniteSets, TLC

\* ------------------------------------------------------------------ bounds

\* add_point calls made by the ingest thread, without and with a reader thread
MaxPoints == 3
MaxPointsRead == 2
\* timestamps are drawn from 1..MaxTime
MaxTime == 2
\* start_recording calls that succeed
MaxStarts == 1
\* start_recording calls that can succeed where a recording is restarted
MaxRestarts == 2
\* stop_recording calls made while not recording that are counted
MaxIdleStops == 2
\* add_point calls where the control thread's calls are counted
MaxPointsCtl == 2
\* add_point calls where a recording is stopped and another started
MaxPointsStop == 2
\* add_point calls before the manager is dropped, where the threads run
MaxPointsDrop == 2
\* read_range calls
MaxReads == 2
\* disk operations that fail
MaxFailures == 1
\* close_recording calls
MaxCloses == 1
\* the byte thresholds of should_flush are divided by ThresholdScale, so that
\* the 100 KB recording threshold is crossed by the second staged point
\* instead of the 6250th
ThresholdScale == 3125

\* -------------------------------------------------------- program constants

\* recorder.rs:164  self.memory_usage += 16
PointBytes == 16
\* recorder.rs:172  self.memory_usage >= 100_000
RecordingFlushBytes == 100000
\* recorder.rs:143  max_memory_mb * 100
CacheEntriesPerMB == 100
\* recorder.rs:144  cache_size.max(100)
MinCacheCapacity == 100

\* The channels of the model: two of the seven members of enum ChannelId.
ChannelId == {"Ecg", "Hr"}

\* The channel read_range is called for: the points and the HashMap order take
\* both channels, so the other channel's reads are these with the names swapped.
ReadChannels == {"Ecg"}

\* The max_memory_mb arguments PolarDataManager::new is given: 0 makes the
\* live-mode threshold 0 bytes (every AddPoint flushes), 1 is never reached.
MemoryBudgetsMB == {0, 1}

NoChannel == "none"
NoPath == 0
Times == 1..MaxTime

\* ----------------------------------------------------------------- helpers

Max(a, b) == IF a >= b THEN a ELSE b
Min(a, b) == IF a <= b THEN a ELSE b

RemoveAt(s, i) == SubSeq(s, 1, i - 1) \o SubSeq(s, i + 1, Len(s))

\* Point { time, value }
Point(t, v) == [time |-> t, value |-> v]

\* RecorderCommand, with the position of the command in send order
AddPointCmd(c, t, v, n) ==
    [type |-> "AddPoint", channel |-> c, time |-> t, value |-> v, seq |-> n]
FlushCmd(n) ==
    [type |-> "Flush", channel |-> NoChannel, time |-> 0, value |-> 0, seq |-> n]
\* (mutant: Drop sends a Flush in the place of Stop)
StopCmd_flush(n) == FlushCmd(n)

StopCmd(n) ==
    [type |-> "Stop", channel |-> NoChannel, time |-> 0, value |-> 0, seq |-> n]
NoCmd == [type |-> "None", channel |-> NoChannel, time |-> 0, value |-> 0, seq |-> 0]

\* CacheKey = (ChannelId, u64, u64)
CacheKey(c, s, e) == <<c, s, e>>

\* ------------------------------------------------- LruCache<CacheKey, Vec>
\* A sequence of entries, most recently used first.

CacheIndex(c, k) ==
    IF \E i \in 1..Len(c) : c[i].key = k
    THEN CHOOSE i \in 1..Len(c) : c[i].key = k
    ELSE 0

cache_contains(c, k) == CacheIndex(c, k) # 0

\* LruCache::peek: the chunk under k (k is in the cache)
cache_peek(c, k) == c[CacheIndex(c, k)].val

\* LruCache::get: the cache after the lookup, which promotes the entry
cache_get(c, k) ==
    LET i == CacheIndex(c, k) IN
    IF i = 0 THEN c ELSE <<c[i]>> \o RemoveAt(c, i)

\* (mutant: a put that inserts without looking for the key)
cache_put_insert(c, cap, k, v) ==
    IF Len(c) >= cap THEN <<[key |-> k, val |-> v]>> \o SubSeq(c, 1, cap - 1)
    ELSE <<[key |-> k, val |-> v]>> \o c

\* LruCache::put: replaces the chunk of an existing key, else inserts, evicting
\* the least recently used entry of a full cache
cache_put(c, cap, k, v) ==
    LET i == CacheIndex(c, k)
        e == [key |-> k, val |-> v]
    IN  IF i # 0 THEN <<e>> \o RemoveAt(c, i)
        ELSE IF Len(c) >= cap THEN <<e>> \o SubSeq(c, 1, cap - 1)
        ELSE <<e>> \o c

\* RecorderState::new: the capacity of the cache
cache_capacity(mb) == Max(mb * CacheEntriesPerMB, MinCacheCapacity)

\* RecorderState::new: max_memory in bytes (scaled)
max_memory(mb) == (mb * 1024 * 1024) \div ThresholdScale

\* ------------------------------------------------------------ the HDF5 file
\* A file: whether it exists, whether the metadata group was written, and per
\* channel group the datasets times and values (an absent dataset is empty:
\* a dataset is created with the first, non-empty, buffer).

EmptyFile ==
    [exists |-> FALSE, meta |-> FALSE, meta_writes |-> 0,
     groups |-> [c \in ChannelId |-> [times |-> <<>>, values |-> <<>>]]]

\* (mutant: the new values are written at the start of the resized dataset)
append_to_dataset_front(dataset, buffer, column) ==
    LET values == [i \in 1..Len(buffer) |->
                      IF column = "times" THEN buffer[i].time ELSE buffer[i].value]
    IN  [i \in 1..(Len(dataset) + Len(values)) |->
            IF i <= Len(values) THEN values[i] ELSE dataset[i - Len(values)]]

\* RecorderState::append_to_dataset: the dataset after buffer's column is
\* appended (resize + write_slice, or create + write)
append_to_dataset(dataset, buffer, column) ==
    LET values == [i \in 1..Len(buffer) |->
                      IF column = "times" THEN buffer[i].time ELSE buffer[i].value]
    IN  IF dataset # <<>>
        THEN LET old_size == Len(dataset)
                 new_size == old_size + Len(values)
             IN  [i \in 1..new_size |->
                     IF i <= old_size THEN dataset[i] ELSE values[i - old_size]]
        ELSE values

\* PolarDataManager::read_from_file: Err when the file, the group or a dataset
\* is missing, else the zipped (time, value) pairs of the range
read_from_file(file, channel, start_time, end_time) ==
    LET times == file.groups[channel].times
        values == file.groups[channel].values
    IN  IF ~file.exists \/ times = <<>> \/ values = <<>>
        THEN [ok |-> FALSE, data |-> <<>>]
        ELSE LET n == Min(Len(times), Len(values))
                 zipped == [i \in 1..n |-> Point(times[i], values[i])]
             IN  [ok |-> TRUE,
                  data |-> SelectSeq(zipped,
                              LAMBDA p : p.time >= start_time /\ p.time <= end_time)]

\* ------------------------------------------------------------ RecorderState
\* One record: cache, cache_cap (the LruCache's capacity), staging_buffers,
\* memory_usage, max_memory, file_path, write_to_disk, file_time_range.

\* RecorderState::new
RecorderState_new(max_memory_mb) ==
    [cache |-> <<>>,
     cache_cap |-> cache_capacity(max_memory_mb),
     staging_buffers |-> [c \in ChannelId |-> <<>>],
     memory_usage |-> 0,
     max_memory |-> max_memory(max_memory_mb),
     file_path |-> NoPath,
     write_to_disk |-> FALSE,
     file_time_range |-> <<>>]

\* RecorderState::add_point
add_point(s, channel, time, value) ==
    [s EXCEPT !.staging_buffers[channel] = Append(@, Point(time, value)),
              !.memory_usage = @ + PointBytes]

\* (mutant: the thresholds have to be exceeded)
should_flush_above(write_to_disk, memory_usage, budget, scale) ==
    IF write_to_disk
    THEN memory_usage > RecordingFlushBytes \div scale
    ELSE memory_usage > budget

\* RecorderState::should_flush, on the fields it reads, with the recording
\* threshold divided by scale
should_flush_at(write_to_disk, memory_usage, budget, scale) ==
    IF write_to_disk
    THEN memory_usage >= RecordingFlushBytes \div scale
    ELSE memory_usage >= budget

\* RecorderState::should_flush
should_flush(s) ==
    should_flush_at(s.write_to_disk, s.memory_usage, s.max_memory, ThresholdScale)

\* RecorderState::enable_disk_recording
enable_disk_recording(s, file_path) ==
    [s EXCEPT !.file_path = file_path, !.write_to_disk = TRUE]

\* RecorderState::disable_disk_recording
disable_disk_recording(s) == [s EXCEPT !.write_to_disk = FALSE]

\* the staging buffers' total length (flush_to_disk's staging_points)
StagingPoints(staging) ==
    LET RECURSIVE Total(_)
        Total(cs) == IF cs = {} THEN 0
                     ELSE LET c == CHOOSE x \in cs : TRUE
                          IN  Len(staging[c]) + Total(cs \ {c})
    IN  Total(ChannelId)

\* RecorderState::age_out_old_data, the loop: the channels of ord are visited in
\* turn; a non-empty buffer is put under (channel, first time, last time)
RECURSIVE FoldStaging(_, _, _, _)
FoldStaging(cache, cap, staging, ord) ==
    IF ord = <<>> THEN cache
    ELSE LET channel == Head(ord)
             buffer == staging[channel]
         IN  IF buffer # <<>>
             THEN FoldStaging(
                      cache_put(cache, cap,
                                CacheKey(channel, buffer[1].time, buffer[Len(buffer)].time),
                                buffer),
                      cap, staging, Tail(ord))
             ELSE FoldStaging(cache, cap, staging, Tail(ord))

\* (mutant: staging is cleared without being folded into the cache)
age_out_old_data_drop(s, ord) ==
    [s EXCEPT !.staging_buffers = [c \in ChannelId |-> <<>>],
              !.memory_usage = 0]

\* (mutant: the fold leaves the byte estimate as it is)
age_out_old_data_keep_usage(s, ord) ==
    [s EXCEPT !.cache = FoldStaging(s.cache, s.cache_cap, s.staging_buffers, ord),
              !.staging_buffers = [c \in ChannelId |-> <<>>]]

\* RecorderState::age_out_old_data
age_out_old_data(s, ord) ==
    [s EXCEPT !.cache = FoldStaging(s.cache, s.cache_cap, s.staging_buffers, ord),
              !.staging_buffers = [c \in ChannelId |-> <<>>],
              !.memory_usage = 0]

\* (mutant: the start time is written by every flush)
write_metadata_always(file) ==
    [file EXCEPT !.meta = TRUE, !.meta_writes = @ + 1]

\* RecorderState::write_metadata: the metadata group and its start_time_ns
\* attribute are created when the file has no metadata group; meta_writes
\* counts the writes of the attribute
write_metadata(file) ==
    IF ~file.meta
    THEN [file EXCEPT !.meta = TRUE, !.meta_writes = @ + 1]
    ELSE file

\* The fallible disk operations of one flush, in order: 1 opens or creates the
\* file; 2j and 2j+1 append times and values of the j-th non-empty buffer;
\* the last one creates the metadata group, when it is not there yet.
NonEmpty(staging, ord) == SelectSeq(ord, LAMBDA c : staging[c] # <<>>)

IoOps(file, staging, ord) ==
    1 + 2 * Len(NonEmpty(staging, ord)) + (IF file.meta THEN 0 ELSE 1)

\* RecorderState::flush_to_disk, the disk part: the file after the operations
\* before the failing one, fail_at (0: none fails), have been done
write_staging(file, staging, ord, fail_at) ==
    LET ne == NonEmpty(staging, ord)
        Pos(c) == CHOOSE j \in 1..Len(ne) : ne[j] = c
        Done(op) == fail_at = 0 \/ fail_at > op
        with_meta == IF fail_at = 0 THEN write_metadata(file) ELSE file
    IN  [exists |-> file.exists \/ Done(1),
         meta |-> with_meta.meta,
         meta_writes |-> with_meta.meta_writes,
         groups |-> [c \in ChannelId |->
            IF staging[c] = <<>> THEN file.groups[c]
            ELSE [times |-> IF Done(2 * Pos(c))
                            THEN append_to_dataset(file.groups[c].times, staging[c], "times")
                            ELSE file.groups[c].times,
                  values |-> IF Done(2 * Pos(c) + 1)
                             THEN append_to_dataset(file.groups[c].values, staging[c], "values")
                             ELSE file.groups[c].values]]]

\* RecorderState::flush_to_disk: the state, the disk and the Result
flush_to_disk(s, dk, ord, fail_at) ==
    IF StagingPoints(s.staging_buffers) = 0
    THEN [state |-> s, disk |-> dk, ok |-> TRUE]
    ELSE IF s.file_path # NoPath
    THEN LET file == write_staging(dk[s.file_path], s.staging_buffers, ord, fail_at)
             written == [dk EXCEPT ![s.file_path] = file]
         IN  IF fail_at # 0
             THEN [state |-> s, disk |-> written, ok |-> FALSE]
             ELSE [state |-> age_out_old_data(s, ord), disk |-> written, ok |-> TRUE]
    ELSE [state |-> age_out_old_data(s, ord), disk |-> dk, ok |-> TRUE]

\* whether flush_to_disk reaches the disk, and the operations that may fail
FlushDoesIo(s) == StagingPoints(s.staging_buffers) # 0 /\ s.file_path # NoPath

\* ------------------------------------------------------------------- state

VARIABLES
    \* the command channel (crossbeam unbounded), oldest command first
    queue,
    \* commands sent so far; the n-th command carries seq n
    nsent,
    \* add_point calls made so far, and how many can be made
    npoints, max_points,
    \* how many start_recording calls can succeed, read_range calls a reader can
    \* make, and stop_recording calls made while not recording are counted; and
    \* whether the build checks integer overflow
    limits,
    \* whether some add_point call was made while the state mutex was held
    ingest_saw,
    \* what the last add_point call returned
    add_ret,
    \* the AddPoint commands sent so far, in send order
    sent,
    \* the control thread: where it is, and what its last call returned
    ctl_pc, ctl_ret,
    \* PolarDataManager.is_recording
    is_recording,
    \* start_recording calls that succeeded, close_recording calls
    nstarts, ncloses,
    \* stop_recording calls made while not recording, as far as counted
    nidle_stops,
    \* whether recording last started before any command was sent
    rec_from,
    \* where idle stop_recording calls are counted: the number of commands sent
    \* when the last recording was stopped, 0 during a recording and before the
    \* first
    idle_since,
    \* the RecorderState behind PolarDataManager.state, and the mutex's holder
    state, mutex,
    \* the iteration order of the staging_buffers HashMap
    hash_order,
    \* the writer thread: where it is, the command it received
    w_pc, w_cmd,
    \* the seq of every command the writer has processed, in processing order,
    \* and what the last one did
    order, w_last,
    \* the recording files by path, and the disk operations that failed so far
    disk, nfail,
    \* the reader threads that exist; per reader: where it is, the key of its
    \* call, the path it cloned, the data it read, what its last call returned
    readers, r_pc, r_key, r_path, r_data, r_ret,
    \* per reader: read_range calls made so far, and whether the last call
    \* asked again for the key of the call before and found it in the cache
    nreads, r_repeat,
    \* per reader, what the writer processed since the reader's last call began
    between,
    \* the object a function of RecorderState, TimeSeries or Channels is applied
    \* to outside the recorder's threads, and what the last application returned
    fn_state, fn_result

ingest_vars == <<queue, nsent, npoints, max_points, limits, ingest_saw, add_ret, sent>>
ctl_vars == <<ctl_pc, ctl_ret, is_recording, nstarts, ncloses, nidle_stops, rec_from,
              idle_since>>
state_vars == <<state, mutex, hash_order>>
writer_vars == <<w_pc, w_cmd, order, w_last>>
disk_vars == <<disk, nfail>>
reader_vars == <<readers, r_pc, r_key, r_path, r_data, r_ret, nreads, r_repeat>>
recorder_vars ==
    <<ingest_vars, ctl_vars, state_vars, writer_vars, disk_vars, reader_vars, between>>
fn_vars == <<fn_state, fn_result>>
vars == <<recorder_vars, fn_vars>>

AllReaders == {"r1", "r2"}
Paths == 1..Max(MaxStarts, MaxRestarts)
Orders == {<<"Ecg", "Hr">>, <<"Hr", "Ecg">>}
NoKey == CacheKey(NoChannel, 0, 0)
NoRet == [ok |-> TRUE, data |-> <<>>, src |-> "never", cached |-> FALSE]
NoLast == [type |-> "None", seq |-> 0, flushed |-> "no", disk_target |-> FALSE,
           auto |-> FALSE]

\* no function is applied outside the recorder's threads
NoFn == [of |-> "none"]

\* PolarDataManager::new, with the reader threads rs, n points to come and the
\* HashMap's iteration order one of orders, and the files dk on the disk
RecorderInitOn(rs, n, orders, dk) ==
    /\ queue = <<>> /\ nsent = 0 /\ npoints = 0 /\ max_points = n
    /\ ingest_saw = FALSE /\ add_ret = "none" /\ sent = <<>>
    /\ ctl_pc = "idle" /\ ctl_ret = "none" /\ is_recording = FALSE
    /\ nstarts = 0 /\ ncloses = 0 /\ nidle_stops = 0 /\ rec_from = FALSE
    /\ idle_since = 0
    /\ \E mb \in MemoryBudgetsMB : state = RecorderState_new(mb)
    /\ mutex = "free"
    /\ hash_order \in orders
    /\ w_pc = "recv" /\ w_cmd = NoCmd /\ order = <<>> /\ w_last = NoLast
    /\ disk = dk /\ nfail = 0
    /\ readers = rs
    /\ r_pc = [r \in AllReaders |-> "idle"]
    /\ r_key = [r \in AllReaders |-> NoKey]
    /\ r_path = [r \in AllReaders |-> NoPath]
    /\ r_data = [r \in AllReaders |-> <<>>]
    /\ r_ret = [r \in AllReaders |-> NoRet]
    /\ nreads = [r \in AllReaders |-> 0]
    /\ r_repeat = [r \in AllReaders |-> FALSE]
    /\ between = [r \in AllReaders |-> "nothing"]

\* no file is on the disk
RecorderInit(rs, n, orders) ==
    RecorderInitOn(rs, n, orders, [p \in Paths |-> EmptyFile])

\* the recorder alone
InitWith(rs, n, orders) ==
    /\ RecorderInit(rs, n, orders)
    /\ fn_state = NoFn /\ fn_result = NoFn

\* one recording, two reads by a reader, idle stop_recording calls not counted
DefaultLimits == [starts |-> MaxStarts, reads |-> MaxReads, idle_stops |-> 0,
                  overflow_checks |-> FALSE]

Init == InitWith({}, MaxPoints, Orders) /\ limits = DefaultLimits

\* With a reader: the reads are for Ecg, and the HashMap visits Ecg first.
InitRead == InitWith({"r1"}, MaxPointsRead, {<<"Ecg", "Hr">>}) /\ limits = DefaultLimits

\* the manager is alive and not being dropped: &self calls can be made (also
\* when a start_recording or stop_recording call has panicked)
Alive == ctl_pc \in {"idle", "stop_lock", "panicked"}

\* crossbeam Sender::send / Receiver::recv on the unbounded FIFO channel: the
\* position in the queue of the command recv returns
send(q, cmd) == Append(q, cmd)

\* (mutant: the newest command is received first)
recv_pos_lifo(q) == Len(q)

recv_pos(q) == 1

\* ----------------------------------------------------------- ingest thread

\* (mutant: add_point takes the state lock and stages the point itself)
add_point_call_staging(channel, time) ==
    /\ Alive
    /\ npoints < max_points
    /\ mutex = "free"
    /\ state' = add_point(state, channel, time, nsent + 1)
    /\ nsent' = nsent + 1
    /\ npoints' = npoints + 1
    /\ sent' = Append(sent, AddPointCmd(channel, time, nsent + 1, nsent + 1))
    /\ ingest_saw' = ingest_saw
    /\ add_ret' = "Ok"
    /\ UNCHANGED <<queue, max_points, limits, fn_vars, ctl_vars, mutex, hash_order, writer_vars,
                   disk_vars, reader_vars, between>>

\* PolarDataManager::add_point: the n-th command carries value n, so that
\* every point sent is told apart
add_point_call(channel, time) ==
    /\ Alive
    /\ npoints < max_points
    /\ npoints' = npoints + 1
    /\ IF w_pc = "exited"
       THEN \* the receiver is dropped: send fails
            /\ add_ret' = "Err"
            /\ UNCHANGED <<queue, nsent, sent>>
       ELSE /\ queue' = send(queue, AddPointCmd(channel, time, nsent + 1, nsent + 1))
            /\ nsent' = nsent + 1
            /\ sent' = Append(sent, AddPointCmd(channel, time, nsent + 1, nsent + 1))
            /\ add_ret' = "Ok"
    /\ UNCHANGED <<max_points, limits, fn_vars>>
    /\ ingest_saw' = (ingest_saw \/ mutex # "free")
    /\ UNCHANGED <<ctl_vars, state_vars, writer_vars, disk_vars, reader_vars, between>>

AddPointCall == \E c \in ChannelId, t \in Times : add_point_call(c, t)

\* ----------------------------------------------------------- writer thread

\* writer_loop: command_rx.recv() and state.lock()
WriterRecv ==
    /\ w_pc = "recv"
    /\ queue # <<>>
    /\ mutex = "free"
    /\ w_cmd' = queue[recv_pos(queue)]
    /\ queue' = RemoveAt(queue, recv_pos(queue))
    /\ mutex' = "writer"
    /\ w_pc' = "locked"
    /\ UNCHANGED <<nsent, npoints, max_points, limits, fn_vars, ingest_saw, add_ret, sent, ctl_vars, state, hash_order, order,
                   w_last, disk_vars, reader_vars, between>>

\* writer_loop: command_rx.recv(), and state.lock().unwrap() panics on the
\* poisoned mutex: the thread unwinds and the receiver is dropped
WriterPanic ==
    /\ w_pc = "recv"
    /\ queue # <<>>
    /\ mutex = "poisoned"
    /\ w_cmd' = queue[recv_pos(queue)]
    /\ queue' = RemoveAt(queue, recv_pos(queue))
    /\ w_pc' = "exited"
    /\ UNCHANGED <<nsent, npoints, max_points, limits, fn_vars, ingest_saw, add_ret, sent, ctl_vars,
                   state_vars, order, w_last, disk_vars, reader_vars, between>>

\* writer_loop, one arm of the match, to the release of the lock: what the
\* state and the disk become when the fail_at-th disk operation fails
writer_arm(cmd, s, dk, ord, fail_at) ==
    IF cmd.type = "AddPoint"
    THEN LET added == add_point(s, cmd.channel, cmd.time, cmd.value)
         IN  IF should_flush(added)
             THEN flush_to_disk(added, dk, ord, fail_at)
             ELSE [state |-> added, disk |-> dk, ok |-> TRUE]
    ELSE flush_to_disk(s, dk, ord, fail_at)

\* the state flush_to_disk is called on by the arm, if it is called
FlushInput(cmd, s) ==
    IF cmd.type = "AddPoint" THEN add_point(s, cmd.channel, cmd.time, cmd.value) ELSE s
CallsFlush(cmd, s) == cmd.type # "AddPoint" \/ should_flush(FlushInput(cmd, s))

\* the disk operations that may fail in the arm: none when flush_to_disk is not
\* called or does not reach the disk
FailPoints(cmd, s, dk, ord) ==
    LET f == FlushInput(cmd, s) IN
    IF CallsFlush(cmd, s) /\ FlushDoesIo(f) /\ nfail < MaxFailures
    THEN 0..IoOps(dk[f.file_path], f.staging_buffers, ord)
    ELSE {0}

WriterProcess ==
    /\ w_pc = "locked"
    /\ \E fail_at \in FailPoints(w_cmd, state, disk, hash_order) :
         LET out == writer_arm(w_cmd, state, disk, hash_order, fail_at) IN
         /\ state' = out.state
         /\ disk' = out.disk
         /\ nfail' = IF fail_at = 0 THEN nfail ELSE nfail + 1
         /\ w_last' = [type |-> w_cmd.type, seq |-> w_cmd.seq,
                       flushed |-> IF ~CallsFlush(w_cmd, state) THEN "no"
                                   ELSE IF out.ok THEN "ok" ELSE "failed",
                       disk_target |-> FlushDoesIo(FlushInput(w_cmd, state)),
                       auto |-> w_cmd.type = "AddPoint" /\ CallsFlush(w_cmd, state)]
    /\ order' = Append(order, w_cmd.seq)
    /\ w_pc' = IF w_cmd.type = "Stop" THEN "exited" ELSE "recv"
    /\ mutex' = "free"
    /\ between' = [r \in AllReaders |->
                      IF r_ret[r].src = "never" /\ r_pc[r] = "idle" THEN between[r]
                      ELSE IF w_cmd.type # "AddPoint" THEN "other"
                      ELSE IF between[r] = "nothing" THEN "adds"
                      ELSE between[r]]
    /\ UNCHANGED <<ingest_vars, fn_vars, ctl_vars, hash_order, w_cmd, reader_vars>>

\* ---------------------------------------------------------- control thread

\* (mutant: start_recording while recording starts over with another file)
StartRecording_restart ==
    /\ ctl_pc = "idle"
    /\ mutex = "free"
    /\ IF is_recording
       THEN /\ state' = enable_disk_recording(state, MaxRestarts)
            /\ UNCHANGED nstarts
       ELSE /\ nstarts < limits.starts
            /\ state' = enable_disk_recording(state, nstarts + 1)
            /\ nstarts' = nstarts + 1
    /\ is_recording' = TRUE
    /\ rec_from' = (nsent = 0)
    /\ idle_since' = 0
    /\ ctl_ret' = "Ok"
    /\ UNCHANGED <<ingest_vars, fn_vars, ctl_pc, ncloses, nidle_stops, mutex, hash_order,
                   writer_vars, disk_vars, reader_vars, between>>

\* PolarDataManager::start_recording: Err when already recording; else the
\* state lock is taken and the path of the nstarts+1-th file is set (the
\* output directory can be created, and no two recordings start within the
\* same second, so that every recording has a file of its own)
StartRecording ==
    /\ ctl_pc = "idle"
    /\ \/ /\ is_recording
          /\ ctl_ret' = "Err"
          /\ UNCHANGED <<ctl_pc, is_recording, nstarts, rec_from, idle_since, state>>
       \/ /\ ~is_recording
          /\ nstarts < limits.starts
          /\ mutex = "free"
          /\ state' = enable_disk_recording(state, nstarts + 1)
          /\ is_recording' = TRUE
          /\ nstarts' = nstarts + 1
          /\ rec_from' = (nsent = 0)
          /\ idle_since' = 0
          /\ ctl_ret' = "Ok"
          /\ UNCHANGED ctl_pc
       \/ \* state.lock().unwrap() panics on the poisoned mutex, with the
          \* is_recording guard held: the is_recording mutex is poisoned too
          /\ ~is_recording
          /\ nstarts < limits.starts
          /\ mutex = "poisoned"
          /\ ctl_pc' = "panicked"
          /\ ctl_ret' = "panic"
          /\ UNCHANGED <<is_recording, nstarts, rec_from, idle_since, state>>
    /\ UNCHANGED <<ingest_vars, fn_vars, ncloses, nidle_stops, mutex, hash_order, writer_vars,
                   disk_vars, reader_vars, between>>

\* (mutant: stop_recording sends Flush whether recording or not)
StopRecordingCall_unconditional ==
    /\ ctl_pc = "idle"
    /\ queue' = send(queue, FlushCmd(nsent + 1))
    /\ nsent' = nsent + 1
    /\ ctl_pc' = "stop_lock"
    /\ ctl_ret' = "none"
    /\ nidle_stops' = IF is_recording THEN nidle_stops
                      ELSE Min(nidle_stops + 1, limits.idle_stops)
    /\ UNCHANGED <<npoints, max_points, limits, fn_vars, ingest_saw, add_ret, sent, is_recording, nstarts,
                   ncloses, rec_from, idle_since, state_vars, writer_vars, disk_vars, reader_vars,
                   between>>

\* PolarDataManager::stop_recording, to the send of Flush
StopRecordingCall ==
    /\ ctl_pc = "idle"
    /\ IF ~is_recording
       THEN /\ ctl_ret' = "Ok"
            /\ nidle_stops' = Min(nidle_stops + 1, limits.idle_stops)
            /\ UNCHANGED <<queue, nsent, ctl_pc>>
       ELSE IF w_pc = "exited"
       THEN \* the receiver is dropped: send fails, Err is returned
            /\ ctl_ret' = "Err"
            /\ UNCHANGED <<queue, nsent, ctl_pc, nidle_stops>>
       ELSE /\ queue' = send(queue, FlushCmd(nsent + 1))
            /\ nsent' = nsent + 1
            /\ ctl_pc' = "stop_lock"
            /\ ctl_ret' = "none"
            /\ UNCHANGED nidle_stops
    /\ UNCHANGED <<npoints, max_points, limits, fn_vars, ingest_saw, add_ret, sent, is_recording, nstarts, ncloses, rec_from, idle_since, state_vars,
                   writer_vars, disk_vars, reader_vars, between>>

\* start_recording or stop_recording after one of them panicked with the
\* is_recording guard held: is_recording.lock().unwrap() panics on the
\* PoisonError
ControlCallPoisoned ==
    /\ ctl_pc = "panicked"
    /\ ctl_ret' = "poisoned"
    /\ UNCHANGED <<ingest_vars, fn_vars, ctl_pc, is_recording, nstarts, ncloses, nidle_stops,
                   rec_from, idle_since, state_vars, writer_vars, disk_vars,
                   reader_vars, between>>

\* PolarDataManager::stop_recording, from state.lock() on
StopRecordingFinish ==
    /\ ctl_pc = "stop_lock"
    /\ \/ /\ mutex = "free"
          /\ state' = disable_disk_recording(state)
          /\ is_recording' = FALSE
          /\ ctl_ret' = "Ok"
          /\ ctl_pc' = "idle"
          /\ idle_since' = IF limits.idle_stops > 0 THEN nsent ELSE 0
       \/ \* state.lock().unwrap() panics on the poisoned mutex, with the
          \* is_recording guard held: the is_recording mutex is poisoned too
          /\ mutex = "poisoned"
          /\ ctl_pc' = "panicked"
          /\ ctl_ret' = "panic"
          /\ UNCHANGED <<state, is_recording, idle_since>>
    /\ UNCHANGED <<ingest_vars, fn_vars, nstarts, ncloses, nidle_stops, rec_from, mutex, hash_order,
                   writer_vars, disk_vars, reader_vars, between>>

\* PolarDataManager::read_time_range_from_file: the first and the last time of
\* every channel that has times; Err when there is none (or the latest is 0)
read_time_range_from_file(file) ==
    LET with_times == {c \in ChannelId : file.groups[c].times # <<>>}
        firsts == {file.groups[c].times[1] : c \in with_times}
        lasts == {file.groups[c].times[Len(file.groups[c].times)] : c \in with_times}
        min_time == CHOOSE t \in firsts : \A u \in firsts : t <= u
        max_time == CHOOSE t \in lasts : \A u \in lasts : t >= u
    IN  IF with_times = {} THEN [ok |-> FALSE, range |-> <<>>]
        ELSE IF max_time = 0 THEN [ok |-> FALSE, range |-> <<>>]
        ELSE [ok |-> TRUE, range |-> <<min_time, max_time>>]

\* PolarDataManager::open_recording of the file at path: Err when the file does
\* not exist or holds no times; else file_time_range is set and the cache is
\* cleared (file_path is left as it is)
OpenRecording ==
    \E path \in Paths :
        LET time_range == read_time_range_from_file(disk[path])
            opened == disk[path].exists /\ time_range.ok
        IN  /\ ctl_pc = "idle"
            /\ mutex = "free"
            /\ state' = IF opened
                        THEN [state EXCEPT !.file_time_range = time_range.range,
                                           !.cache = <<>>]
                        ELSE state
            /\ fn_result' = [of |-> "open_recording", file |-> path, ok |-> opened,
                             range |-> IF opened THEN time_range.range ELSE <<>>]
            /\ ctl_ret' = IF opened THEN "Ok" ELSE "Err"
            /\ UNCHANGED <<ingest_vars, fn_state, ctl_pc, is_recording, nstarts, ncloses,
                           nidle_stops, rec_from, idle_since, mutex, hash_order,
                           writer_vars, disk_vars, reader_vars, between>>

\* PolarDataManager::close_recording
CloseRecording ==
    /\ ctl_pc = "idle"
    /\ ncloses < MaxCloses
    /\ mutex = "free"
    /\ state' = [state EXCEPT !.file_time_range = <<>>, !.cache = <<>>]
    /\ ncloses' = ncloses + 1
    /\ ctl_ret' = "Ok"
    /\ UNCHANGED <<ingest_vars, fn_vars, ctl_pc, is_recording, nstarts, nidle_stops, rec_from, idle_since, mutex,
                   hash_order, writer_vars, disk_vars, reader_vars, between>>

\* Drop for PolarDataManager (&mut self: no other call is in progress):
\* stop_recording, to its send of Flush
DropBegin ==
    /\ ctl_pc = "idle"
    /\ \A r \in AllReaders : r_pc[r] = "idle"
    /\ IF is_recording
       THEN /\ queue' = send(queue, FlushCmd(nsent + 1))
            /\ nsent' = nsent + 1
            /\ ctl_pc' = "drop_stop_lock"
       ELSE /\ ctl_pc' = "drop_send"
            /\ UNCHANGED <<queue, nsent>>
    /\ UNCHANGED <<npoints, max_points, limits, fn_vars, ingest_saw, add_ret, sent, ctl_ret, is_recording, nstarts, ncloses, nidle_stops, rec_from, idle_since,
                   state_vars, writer_vars, disk_vars, reader_vars, between>>

\* Drop: stop_recording, from state.lock() on
DropStopFinish ==
    /\ ctl_pc = "drop_stop_lock"
    /\ mutex = "free"
    /\ state' = disable_disk_recording(state)
    /\ is_recording' = FALSE
    /\ ctl_pc' = "drop_send"
    /\ UNCHANGED <<ingest_vars, fn_vars, ctl_ret, nstarts, ncloses, nidle_stops, rec_from, idle_since, mutex,
                   hash_order, writer_vars, disk_vars, reader_vars, between>>

\* Drop: command_tx.send(Stop)
DropSendStop ==
    /\ ctl_pc = "drop_send"
    /\ queue' = send(queue, StopCmd(nsent + 1))
    /\ nsent' = nsent + 1
    /\ ctl_pc' = "joining"
    /\ UNCHANGED <<npoints, max_points, limits, fn_vars, ingest_saw, add_ret, sent, ctl_ret, is_recording, nstarts, ncloses, nidle_stops, rec_from, idle_since,
                   state_vars, writer_vars, disk_vars, reader_vars, between>>

\* Drop: handle.join()
DropJoin ==
    /\ ctl_pc = "joining"
    /\ w_pc = "exited"
    /\ ctl_pc' = "dropped"
    /\ UNCHANGED <<ingest_vars, fn_vars, ctl_ret, is_recording, nstarts, ncloses, nidle_stops, rec_from, idle_since, state_vars,
                   writer_vars, disk_vars, reader_vars, between>>

\* ----------------------------------------------------------- reader threads

InRange(buffer, start_time, end_time) ==
    SelectSeq(buffer, LAMBDA p : p.time >= start_time /\ p.time <= end_time)

\* read_range that goes to the file without looking in the cache
read_range_path_skip_cache(s, channel, start_time, end_time) ==
    IF InRange(s.staging_buffers[channel], start_time, end_time) # <<>> THEN "staging"
    ELSE IF s.file_path # NoPath THEN "file"
    ELSE "empty"

\* read_range that looks in the cache before the staging buffer
read_range_path_cache_first(s, channel, start_time, end_time) ==
    IF cache_contains(s.cache, CacheKey(channel, start_time, end_time)) THEN "cache"
    ELSE IF InRange(s.staging_buffers[channel], start_time, end_time) # <<>> THEN "staging"
    ELSE IF s.file_path # NoPath THEN "file"
    ELSE "empty"

\* read_range that returns nothing without a file, before looking in the cache
read_range_path_file_first(s, channel, start_time, end_time) ==
    IF InRange(s.staging_buffers[channel], start_time, end_time) # <<>> THEN "staging"
    ELSE IF s.file_path = NoPath THEN "empty"
    ELSE IF cache_contains(s.cache, CacheKey(channel, start_time, end_time)) THEN "cache"
    ELSE "file"

\* read_range, the part under the first lock: "staging" returns the staged
\* points of the range, "cache" the chunk of the exact key, "file" goes on to
\* the disk with the lock released, "empty" returns nothing
read_range_path(s, channel, start_time, end_time) ==
    IF InRange(s.staging_buffers[channel], start_time, end_time) # <<>> THEN "staging"
    ELSE IF cache_contains(s.cache, CacheKey(channel, start_time, end_time)) THEN "cache"
    ELSE IF s.file_path # NoPath THEN "file"
    ELSE "empty"

\* PolarDataManager::read_range, to its return or to the release of the lock
\* before the file is read
read_range_call(r, channel, start_time, end_time) ==
    LET key == CacheKey(channel, start_time, end_time)
        path == read_range_path(state, channel, start_time, end_time)
    IN  /\ Alive
        /\ r \in readers
        /\ r_pc[r] = "idle"
        /\ nreads[r] < limits.reads
        /\ mutex = "free"
        /\ nreads' = [nreads EXCEPT ![r] = @ + 1]
        /\ r_repeat' = [r_repeat EXCEPT ![r] =
              /\ r_ret[r].src # "never" /\ r_ret[r].ok /\ r_ret[r].cached
              /\ r_key[r] = key
              /\ cache_contains(state.cache, key)]
        /\ r_key' = [r_key EXCEPT ![r] = key]
        /\ between' = [between EXCEPT ![r] = "nothing"]
        /\ CASE path = "staging" ->
                  /\ r_ret' = [r_ret EXCEPT ![r] =
                        [ok |-> TRUE, src |-> "staging",
                         cached |-> cache_contains(state.cache, key),
                         data |-> InRange(state.staging_buffers[channel],
                                          start_time, end_time)]]
                  /\ UNCHANGED <<state, r_pc, r_path>>
             [] path = "cache" ->
                  /\ r_ret' = [r_ret EXCEPT ![r] =
                        [ok |-> TRUE, src |-> "cache", cached |-> TRUE,
                         data |-> cache_peek(state.cache, key)]]
                  /\ state' = [state EXCEPT !.cache = cache_get(@, key)]
                  /\ UNCHANGED <<r_pc, r_path>>
             [] path = "file" ->
                  /\ r_pc' = [r_pc EXCEPT ![r] = "reading"]
                  /\ r_path' = [r_path EXCEPT ![r] = state.file_path]
                  /\ UNCHANGED <<state, r_ret>>
             [] path = "empty" ->
                  /\ r_ret' = [r_ret EXCEPT ![r] =
                        [ok |-> TRUE, src |-> "empty", cached |-> FALSE, data |-> <<>>]]
                  /\ UNCHANGED <<state, r_pc, r_path>>
        /\ UNCHANGED <<ingest_vars, fn_vars, ctl_vars, mutex, hash_order, writer_vars,
                       disk_vars, readers, r_data>>

ReadRangeCall ==
    \E r \in AllReaders, c \in ReadChannels, s \in Times, e \in Times :
        s <= e /\ read_range_call(r, c, s, e)

\* read_range: read_from_file for the requested range, without the lock; an
\* Err is returned to the caller
ReadFile(r) ==
    /\ r_pc[r] = "reading"
    /\ LET got == read_from_file(disk[r_path[r]], r_key[r][1], r_key[r][2], r_key[r][3])
       IN  IF got.ok
           THEN /\ r_data' = [r_data EXCEPT ![r] = got.data]
                /\ r_pc' = [r_pc EXCEPT ![r] = "relock"]
                /\ UNCHANGED r_ret
           ELSE /\ r_ret' = [r_ret EXCEPT ![r] =
                      [ok |-> FALSE, src |-> "file", cached |-> FALSE, data |-> <<>>]]
                /\ r_pc' = [r_pc EXCEPT ![r] = "idle"]
                /\ UNCHANGED r_data
    /\ UNCHANGED <<ingest_vars, fn_vars, ctl_vars, state_vars, writer_vars, disk_vars,
                   readers, r_key, r_path, nreads, r_repeat, between>>

\* read_range: the lock is taken again and the result is cached
ReadRelock(r) ==
    /\ r_pc[r] = "relock"
    /\ mutex = "free"
    /\ mutex' = r
    /\ state' = [state EXCEPT !.cache = cache_put(@, state.cache_cap, r_key[r], r_data[r])]
    /\ r_pc' = [r_pc EXCEPT ![r] = "prefetch"]
    /\ between' = [x \in AllReaders |->
                      IF x = r \/ (r_ret[x].src = "never" /\ r_pc[x] = "idle")
                      THEN between[x] ELSE "other"]
    /\ UNCHANGED <<ingest_vars, fn_vars, ctl_vars, hash_order, writer_vars, disk_vars,
                   readers, r_key, r_path, r_data, r_ret, nreads, r_repeat>>

\* (mutant: read_range without prefetching)
prefetch_skip(cache, cap, file, channel, chunk_start, chunk_end) == cache

\* read_range: one neighbouring chunk is read from the file and cached, unless
\* its key is in the cache or the read fails
prefetch(cache, cap, file, channel, chunk_start, chunk_end) ==
    LET key == CacheKey(channel, chunk_start, chunk_end)
        got == read_from_file(file, channel, chunk_start, chunk_end)
    IN  IF ~cache_contains(cache, key) /\ got.ok
        THEN cache_put(cache, cap, key, got.data)
        ELSE cache

\* u64 arithmetic of the prefetch for start_time <= end_time, and for
\* start_time > end_time in a build without overflow checks, where
\* end_time - start_time wraps to 2^64 - (start_time - end_time): the
\* saturating subtraction gives 0, and end_time + chunk_duration wraps to
\* 2 * end_time - start_time (the ranges read have 2 * end_time >= start_time)
prev_chunk_start(start_time, end_time) ==
    IF start_time <= end_time THEN Max(start_time - (end_time - start_time), 0) ELSE 0
next_chunk_end(start_time, end_time) == 2 * end_time - start_time

\* read_range: both neighbours are prefetched under the lock, then Ok(data).
\* With start_time > end_time the subtraction panics in a build with overflow
\* checks: the guard is dropped by the unwinding and the mutex is poisoned.
ReadPrefetch(r) ==
    /\ r_pc[r] = "prefetch"
    /\ mutex = r
    /\ LET channel == r_key[r][1]
           start_time == r_key[r][2]
           end_time == r_key[r][3]
           file == disk[r_path[r]]
           with_prev == prefetch(state.cache, state.cache_cap, file, channel,
                                 prev_chunk_start(start_time, end_time), start_time)
           with_next == prefetch(with_prev, state.cache_cap, file, channel,
                                 end_time, next_chunk_end(start_time, end_time))
       IN  IF start_time > end_time /\ limits.overflow_checks
           THEN /\ r_pc' = [r_pc EXCEPT ![r] = "panicked"]
                /\ mutex' = "poisoned"
                /\ UNCHANGED <<state, r_ret>>
           ELSE /\ state' = [state EXCEPT !.cache = with_next]
                /\ r_ret' = [r_ret EXCEPT ![r] =
                      [ok |-> TRUE, src |-> "file", data |-> r_data[r],
                       cached |-> cache_contains(state'.cache, r_key[r])]]
                /\ r_pc' = [r_pc EXCEPT ![r] = "idle"]
                /\ mutex' = "free"
    /\ UNCHANGED <<ingest_vars, fn_vars, ctl_vars, hash_order, writer_vars, disk_vars,
                   readers, r_key, r_path, r_data, nreads, r_repeat, between>>

ReadStep == \E r \in AllReaders : ReadFile(r) \/ ReadRelock(r) \/ ReadPrefetch(r)

\* The ingest thread, the writer thread and the control thread, to the drop of
\* the manager.
Next ==
    \/ AddPointCall
    \/ WriterRecv
    \/ WriterProcess
    \/ StartRecording
    \/ StopRecordingCall
    \/ StopRecordingFinish
    \/ DropBegin
    \/ DropStopFinish
    \/ DropSendStop
    \/ DropJoin

Spec == Init /\ [][Next]_vars

\* The same with fewer points, and the stop_recording calls that are made
\* while not recording counted.
InitCtl ==
    /\ InitWith({}, MaxPointsCtl, Orders)
    /\ limits = [starts |-> MaxStarts, reads |-> MaxReads, idle_stops |-> MaxIdleStops,
                 overflow_checks |-> FALSE]

SpecCtl == InitCtl /\ [][Next]_vars

\* The manager used and dropped, with threads that run: the writer thread as
\* above, and the thread that drops the manager goes through Drop::drop.
InitDrop == InitWith({}, MaxPointsDrop, Orders) /\ limits = DefaultLimits

SpecDrop ==
    /\ InitDrop /\ [][Next]_vars
    /\ WF_vars(WriterRecv) /\ WF_vars(WriterProcess)
    /\ WF_vars(DropStopFinish) /\ WF_vars(DropSendStop) /\ WF_vars(DropJoin)

\* Recordings stopped and started again while the manager lives. The writer
\* thread runs: it receives a queued command when the lock is free and
\* completes the arm it is in; stop_recording gets the lock when it is free.
InitStop ==
    /\ InitWith({}, MaxPointsStop, Orders)
    /\ limits = [starts |-> MaxRestarts, reads |-> MaxReads, idle_stops |-> 0,
                  overflow_checks |-> FALSE]

NextStop ==
    \/ AddPointCall
    \/ WriterRecv
    \/ WriterProcess
    \/ StartRecording
    \/ StopRecordingCall
    \/ StopRecordingFinish

SpecStop ==
    /\ InitStop /\ [][NextStop]_vars
    /\ WF_vars(WriterRecv) /\ WF_vars(WriterProcess) /\ WF_vars(StopRecordingFinish)

\* The same with a reader thread and close_recording, while the manager lives.
NextRead ==
    \/ AddPointCall
    \/ WriterRecv
    \/ WriterProcess
    \/ StartRecording
    \/ StopRecordingCall
    \/ StopRecordingFinish
    \/ CloseRecording
    \/ ReadRangeCall
    \/ ReadStep

SpecRead == InitRead /\ [][NextRead]_vars

\* read_range for a range that may start at time 0, where the range before it
\* is cut short
ScrollStarts == 0..MaxTime

ReadRangeScroll ==
    \E r \in AllReaders, c \in ReadChannels, s \in ScrollStarts, e \in Times :
        s <= e /\ read_range_call(r, c, s, e)

\* A reader scrolling through a recording: reads from time 0 on, no
\* close_recording.
NextScroll ==
    \/ AddPointCall
    \/ WriterRecv
    \/ WriterProcess
    \/ StartRecording
    \/ StopRecordingCall
    \/ StopRecordingFinish
    \/ ReadRangeScroll
    \/ ReadStep

SpecScroll == InitRead /\ [][NextScroll]_vars

\* a reader that may ask for a range with start_time > end_time, in either
\* build, while points are recorded: the state mutex can be poisoned and the
\* writer thread can exit with the manager alive
MaxPointsPoison == 4
MaxReadsPoison == 1
InitPoison ==
    /\ InitWith({"r1"}, MaxPointsPoison, {<<"Ecg", "Hr">>})
    /\ \E oc \in BOOLEAN :
         limits = [starts |-> MaxStarts, reads |-> MaxReadsPoison, idle_stops |-> 0,
                   overflow_checks |-> oc]
\* the points are all of one channel and one time
AddPointEcg == add_point_call("Ecg", 1)
ReadRangeAny ==
    \E r \in AllReaders, c \in ReadChannels, s \in Times, e \in Times :
        2 * e >= s /\ read_range_call(r, c, s, e)
NextPoison ==
    \/ AddPointEcg
    \/ WriterRecv
    \/ WriterProcess
    \/ WriterPanic
    \/ StartRecording
    \/ StopRecordingCall
    \/ StopRecordingFinish
    \/ ControlCallPoisoned
    \/ ReadRangeAny
    \/ ReadStep
SpecPoison == InitPoison /\ [][NextPoison]_vars

\* two readers, one read_range call each, during a recording that is not stopped
MaxPointsPair == 3
MaxReadsPair == 1
InitPair ==
    /\ InitWith({"r1", "r2"}, MaxPointsPair, {<<"Ecg", "Hr">>})
    /\ limits = [starts |-> MaxStarts, reads |-> MaxReadsPair, idle_stops |-> 0,
                 overflow_checks |-> FALSE]
\* the points are all of the channel that is read
AddPointRead == \E c \in ReadChannels, t \in Times : add_point_call(c, t)
NextPair ==
    \/ AddPointRead
    \/ WriterRecv
    \/ WriterProcess
    \/ StartRecording
    \/ ReadRangeCall
    \/ ReadStep
SpecPair == InitPair /\ [][NextPair]_vars

\* a recording of an earlier run is on the disk, under a path no recording of
\* this run is given; it can be opened and closed while a reader reads and
\* points are recorded
PriorPath == Max(MaxStarts, MaxRestarts)
PriorFile ==
    [exists |-> TRUE, meta |-> TRUE, meta_writes |-> 1,
     groups |-> [c \in ChannelId |->
        IF c \in ReadChannels
        THEN [times |-> <<1, 2>>, values |-> <<1, 2>>]
        ELSE [times |-> <<>>, values |-> <<>>]]]
MaxPointsOpen == 2
InitOpen ==
    /\ RecorderInitOn({"r1"}, MaxPointsOpen, {<<"Ecg", "Hr">>},
                      [p \in Paths |-> IF p = PriorPath THEN PriorFile ELSE EmptyFile])
    /\ state = RecorderState_new(1)
    /\ limits = DefaultLimits
    /\ fn_state = NoFn /\ fn_result = NoFn
NextOpen ==
    \/ AddPointRead
    \/ WriterRecv
    \/ WriterProcess
    \/ StartRecording
    \/ OpenRecording
    \/ CloseRecording
    \/ ReadRangeCall
    \/ ReadStep
SpecOpen == InitOpen /\ [][NextOpen]_vars

\* ------------------------------------------------- functions on their own
\* The specifications below apply functions to an object of their own; the
\* recorder is idle and stays as it was constructed.
RecorderIdle ==
    /\ RecorderInit({}, 0, {<<"Ecg", "Hr">>})
    /\ state = RecorderState_new(1)
    /\ limits = DefaultLimits

\* RecorderState: points are staged one after the other, with the thresholds
\* of the source, and should_flush is asked after each
MaxStaged == 65537
FlushBudgetsMB == {0, 1}
InitFlushAt ==
    /\ RecorderIdle
    /\ \E w \in BOOLEAN, mb \in FlushBudgetsMB :
         /\ fn_state = [of |-> "RecorderState", write_to_disk |-> w,
                        max_memory_mb |-> mb, max_memory |-> mb * 1024 * 1024,
                        memory_usage |-> 0, staged |-> 0]
         /\ fn_result = [of |-> "should_flush",
                         flush |-> should_flush_at(w, 0, mb * 1024 * 1024, 1)]
\* RecorderState::add_point, then should_flush as writer_loop calls it
StagePoint ==
    /\ fn_state.of = "RecorderState"
    /\ fn_state.staged < MaxStaged
    /\ fn_state' = [fn_state EXCEPT !.memory_usage = @ + PointBytes,
                                    !.staged = @ + 1]
    /\ fn_result' = [of |-> "should_flush",
                     flush |-> should_flush_at(fn_state'.write_to_disk,
                                               fn_state'.memory_usage,
                                               fn_state'.max_memory, 1)]
    /\ UNCHANGED recorder_vars
SpecFlushAt == InitFlushAt /\ [][StagePoint]_vars

\* ------------------------------------------------------------- TimeSeries
\* u64::saturating_sub
saturating_sub(a, b) == IF a >= b THEN a - b ELSE 0

\* data.partition_point(|p| p.time < time) over data whose points before time
\* come first: the number of points in that prefix
partition_point_time(data, time) ==
    IF \A i \in 1..Len(data) : data[i].time < time THEN Len(data)
    ELSE (CHOOSE i \in 1..Len(data) :
             ~(data[i].time < time) /\ \A j \in 1..(i - 1) : data[j].time < time) - 1

\* data.partition_point(|p| p.time <= time)
partition_point_time_inclusive(data, time) ==
    IF \A i \in 1..Len(data) : data[i].time <= time THEN Len(data)
    ELSE (CHOOSE i \in 1..Len(data) :
             ~(data[i].time <= time) /\ \A j \in 1..(i - 1) : data[j].time <= time) - 1

\* &data[a..b], indices from 0
Slice(data, a, b) == SubSeq(data, a + 1, b)

\* (mutant: the point is put before the ones already stored)
TimeSeries_add_point_front(data, time, value) == <<Point(time, value)>> \o data

\* TimeSeries::add_point
TimeSeries_add_point(data, time, value) == Append(data, Point(time, value))

\* (mutant: the last n points but one)
last_points_short(data, n) ==
    Slice(data, saturating_sub(Len(data), n), saturating_sub(Len(data), 1))

\* TimeSeries::last_points
last_points(data, n) == Slice(data, saturating_sub(Len(data), n), Len(data))

\* TimeSeries::last_duration
last_duration(data, duration_ns) ==
    IF data = <<>> THEN <<>>
    ELSE LET latest_time == data[Len(data)].time
             cutoff_time == saturating_sub(latest_time, duration_ns)
             start_idx == partition_point_time(data, cutoff_time)
         IN  Slice(data, start_idx, Len(data))

\* (mutant: the window is open at its right end)
range_from_time_open(data, end_time, duration_ns) ==
    IF data = <<>> THEN <<>>
    ELSE LET start_time == saturating_sub(end_time, duration_ns)
             start_idx == partition_point_time(data, start_time)
             end_idx == partition_point_time(data, end_time)
         IN  Slice(data, start_idx, end_idx)

\* TimeSeries::range_from_time
range_from_time(data, end_time, duration_ns) ==
    IF data = <<>> THEN <<>>
    ELSE LET start_time == saturating_sub(end_time, duration_ns)
             start_idx == partition_point_time(data, start_time)
             end_idx == partition_point_time_inclusive(data, end_time)
         IN  Slice(data, start_idx, end_idx)

\* (mutant: the synthetic point carries the value of the first point in range)
range_from_time_with_fill_next(data, end_time, duration_ns) ==
    IF data = <<>> THEN <<>>
    ELSE LET start_time == saturating_sub(end_time, duration_ns)
             start_idx == partition_point_time(data, start_time)
             end_idx == partition_point_time_inclusive(data, end_time)
             points_in_range == Slice(data, start_idx, end_idx)
         IN  IF points_in_range # <<>> /\ points_in_range[1].time > start_time
                /\ start_idx > 0
             THEN <<Point(start_time, points_in_range[1].value)>> \o points_in_range
             ELSE points_in_range

\* TimeSeries::range_from_time_with_fill
range_from_time_with_fill(data, end_time, duration_ns) ==
    IF data = <<>> THEN <<>>
    ELSE LET start_time == saturating_sub(end_time, duration_ns)
             start_idx == partition_point_time(data, start_time)
             end_idx == partition_point_time_inclusive(data, end_time)
             points_in_range == Slice(data, start_idx, end_idx)
         IN  IF points_in_range # <<>> /\ points_in_range[1].time > start_time
                /\ start_idx > 0
             THEN LET last_before == data[start_idx]
                  IN  <<Point(start_time, last_before.value)>> \o points_in_range
             ELSE points_in_range

\* A TimeSeries of its own: points are appended in non-decreasing time order,
\* as the router does, and the windowed queries are applied; appended is the
\* log of the add_point calls
MaxSeriesLen == 3
MaxSeriesTime == 4
SeriesTimes == 0..MaxSeriesTime
SeriesValues == {0, 10, 25}
QueryTimes == 0..(MaxSeriesTime + 1)
InitSeries ==
    /\ RecorderIdle
    /\ fn_state = [of |-> "TimeSeries", data |-> <<>>, appended |-> <<>>]
    /\ fn_result = [of |-> "new"]
SeriesAddPoint ==
    \E time \in SeriesTimes, value \in SeriesValues :
        /\ fn_state.of = "TimeSeries"
        /\ Len(fn_state.appended) < MaxSeriesLen
        /\ fn_state.appended # <<>> => time >= fn_state.appended[Len(fn_state.appended)].time
        /\ fn_state' = [fn_state EXCEPT
              !.data = TimeSeries_add_point(@, time, value),
              !.appended = Append(@, Point(time, value))]
        /\ fn_result' = [of |-> "add_point"]
        /\ UNCHANGED recorder_vars
SeriesLastPoints ==
    \E n \in 0..(MaxSeriesLen + 1) :
        /\ fn_state.of = "TimeSeries"
        /\ fn_result' = [of |-> "last_points", n |-> n, out |-> last_points(fn_state.data, n)]
        /\ UNCHANGED <<recorder_vars, fn_state>>
SeriesLastDuration ==
    \E d \in QueryTimes :
        /\ fn_state.of = "TimeSeries"
        /\ fn_result' = [of |-> "last_duration", duration_ns |-> d,
                         out |-> last_duration(fn_state.data, d)]
        /\ UNCHANGED <<recorder_vars, fn_state>>
SeriesRangeFromTime ==
    \E e \in QueryTimes, d \in QueryTimes :
        /\ fn_state.of = "TimeSeries"
        /\ fn_result' = [of |-> "range_from_time", end_time |-> e, duration_ns |-> d,
                         out |-> range_from_time(fn_state.data, e, d)]
        /\ UNCHANGED <<recorder_vars, fn_state>>
SeriesRangeWithFill ==
    \E e \in QueryTimes, d \in QueryTimes :
        /\ fn_state.of = "TimeSeries"
        /\ fn_result' = [of |-> "range_from_time_with_fill", end_time |-> e,
                         duration_ns |-> d,
                         out |-> range_from_time_with_fill(fn_state.data, e, d)]
        /\ UNCHANGED <<recorder_vars, fn_state>>
NextSeries ==
    \/ SeriesAddPoint
    \/ SeriesLastPoints
    \/ SeriesLastDuration
    \/ SeriesRangeFromTime
    \/ SeriesRangeWithFill
SpecSeries == InitSeries /\ [][NextSeries]_vars

\* ------------------------------------------------- interpolation helpers

\* f64::round of the exact quotient n / d (d > 0): to the nearest integer, a
\* half away from zero; the times and values in use keep the f64 arithmetic
\* exact or away from a half
round(n, d) ==
    IF n >= 0 THEN (2 * n + d) \div (2 * d) ELSE 0 - ((2 * (0 - n) + d) \div (2 * d))

\* progress is 0/0 = NaN when the two points share their time, and NaN as i32
\* is 0
interpolate_point(p1, p2, target_time) ==
    LET time_diff == p2.time - p1.time
        value_diff == p2.value - p1.value
        time_from_p1 == target_time - p1.time
    IN  Point(target_time,
              IF time_diff = 0 THEN 0
              ELSE round(p1.value * time_diff + value_diff * time_from_p1, time_diff))

interpolate_between_points(p1, p2, target_interval_ns, start_time, end_time) ==
    LET time_diff == saturating_sub(p2.time, p1.time)
        value_diff == p2.value - p1.value
        num_steps == Max(time_diff \div target_interval_ns, 1)
        at(step) == Point(p1.time + ((time_diff * step) \div num_steps),
                          round(p1.value * num_steps + value_diff * step, num_steps))
        steps == [i \in 1..num_steps |-> at(i - 1)]
    IN  SelectSeq(steps, LAMBDA p : p.time > start_time /\ p.time < end_time)

\* Iterator::position(..).unwrap_or(0), as a 0-based index
first_in_window_of(points, start_time) ==
    LET hits == {i \in 1..Len(points) : points[i].time >= start_time}
    IN  IF hits = {} THEN 0 ELSE (CHOOSE i \in hits : \A j \in hits : i <= j) - 1

add_start_boundary_point(result, points, start_time) ==
    LET first_in_window == first_in_window_of(points, start_time)
    IN  IF first_in_window > 0
        THEN LET p1 == points[first_in_window]
                 p2 == points[first_in_window + 1]
             IN  IF p1.time <= start_time /\ p2.time >= start_time
                 THEN Append(result, interpolate_point(p1, p2, start_time))
                 ELSE result
        ELSE result

\* Iterator::rposition(..).unwrap_or(len - 1), as a 0-based index
last_before_end_of(points, end_time) ==
    LET hits == {i \in 1..Len(points) : points[i].time <= end_time}
    IN  IF hits = {} THEN Len(points) - 1
        ELSE (CHOOSE i \in hits : \A j \in hits : i >= j) - 1

\* the extrapolation without the limit of three intervals
add_end_boundary_point_unlimited(result, points, end_time) ==
    LET last_before_end == last_before_end_of(points, end_time)
        len == Len(points)
    IN  IF last_before_end + 1 < len
        THEN LET p1 == points[last_before_end + 1]
                 p2 == points[last_before_end + 2]
             IN  IF p1.time <= end_time /\ p2.time >= end_time
                 THEN Append(result, interpolate_point(p1, p2, end_time))
                 ELSE result
        ELSE IF len >= 2
        THEN LET p1 == points[len - 1]
                 p2 == points[len]
                 time_diff == p2.time - p1.time
                 value_diff == p2.value - p1.value
                 time_from_p2 == end_time - p2.time
             IN  IF p2.time < end_time /\ time_diff > 0
                 THEN Append(result,
                        Point(end_time,
                              round(p2.value * time_diff + value_diff * time_from_p2,
                                    time_diff)))
                 ELSE result
        ELSE result

add_end_boundary_point(result, points, end_time) ==
    LET last_before_end == last_before_end_of(points, end_time)
        len == Len(points)
    IN  IF last_before_end + 1 < len
        THEN LET p1 == points[last_before_end + 1]
                 p2 == points[last_before_end + 2]
             IN  IF p1.time <= end_time /\ p2.time >= end_time
                 THEN Append(result, interpolate_point(p1, p2, end_time))
                 ELSE result
        ELSE IF len >= 2
        THEN LET p1 == points[len - 1]
                 p2 == points[len]
                 time_diff == p2.time - p1.time
                 value_diff == p2.value - p1.value
                 time_from_p2 == end_time - p2.time
             IN  IF p2.time < end_time /\ time_diff > 0 /\ time_from_p2 <= time_diff * 3
                 THEN Append(result,
                        Point(end_time,
                              round(p2.value * time_diff + value_diff * time_from_p2,
                                    time_diff)))
                 ELSE result
        ELSE result

\* the accumulated points left in construction order
sort_by_key_time_unsorted(points) == points

\* slice::sort_by_key(|p| p.time): stable
RECURSIVE sort_by_key_time(_)
sort_by_key_time(points) ==
    IF points = <<>> THEN <<>>
    ELSE LET sorted == sort_by_key_time(SubSeq(points, 1, Len(points) - 1))
             p == points[Len(points)]
             keep == Cardinality({i \in 1..Len(sorted) : sorted[i].time <= p.time})
         IN  SubSeq(sorted, 1, keep) \o <<p>> \o SubSeq(sorted, keep + 1, Len(sorted))

RECURSIVE between_all(_, _, _, _)
between_all(points, target_interval_ns, start_time, end_time) ==
    IF Len(points) < 2 THEN <<>>
    ELSE between_all(SubSeq(points, 1, Len(points) - 1), target_interval_ns,
                     start_time, end_time)
           \o interpolate_between_points(points[Len(points) - 1], points[Len(points)],
                                         target_interval_ns, start_time, end_time)

\* the points the pipeline selects: the window's points, one before and one
\* after
points_for_interp_of(data, end_time, duration_ns) ==
    LET start_time == saturating_sub(end_time, duration_ns)
        start_idx == partition_point_time(data, start_time)
        end_idx == partition_point_time_inclusive(data, end_time)
        actual_start_idx == IF start_idx > 0 THEN start_idx - 1 ELSE start_idx
        actual_end_idx == Min(end_idx + 1, Len(data))
    IN  Slice(data, actual_start_idx, actual_end_idx)

range_from_time_interpolated(data, end_time, duration_ns, target_interval_ns, interpolate_end) ==
    IF data = <<>> THEN <<>>
    ELSE LET start_time == saturating_sub(end_time, duration_ns)
             points_for_interp == points_for_interp_of(data, end_time, duration_ns)
         IN  IF Len(points_for_interp) < 2
             THEN range_from_time_with_fill(data, end_time, duration_ns)
             ELSE LET r1 == add_start_boundary_point(<<>>, points_for_interp, start_time)
                      r2 == r1 \o between_all(points_for_interp, target_interval_ns,
                                              start_time, end_time)
                      r3 == r2 \o SelectSeq(points_for_interp,
                                    LAMBDA p : p.time > start_time /\ p.time < end_time)
                      r4 == IF interpolate_end
                            THEN add_end_boundary_point(r3, points_for_interp, end_time)
                            ELSE r3
                  IN  sort_by_key_time(r4)

\* The interpolation pipeline applied to every series of non-decreasing times
\* and every window within the bounds
TargetIntervals == {1, 2}
SortedSeries ==
    {s \in UNION {[1..n -> [time : SeriesTimes, value : SeriesValues]] : n \in 0..MaxSeriesLen} :
        \A i \in 1..(Len(s) - 1) : s[i].time <= s[i + 1].time}
InitInterp ==
    /\ RecorderIdle
    /\ \E data \in SortedSeries, e \in QueryTimes, d \in QueryTimes,
          ti \in TargetIntervals, ie \in BOOLEAN :
          fn_state = [of |-> "TimeSeries", data |-> data, appended |-> data,
                      call |-> [end_time |-> e, duration_ns |-> d,
                                target_interval_ns |-> ti, interpolate_end |-> ie]]
    /\ fn_result = [of |-> "new"]
SeriesRangeInterpolated ==
    /\ fn_state.of = "TimeSeries"
    /\ fn_result.of = "new"
    /\ LET call == fn_state.call
       IN  fn_result' = [of |-> "range_from_time_interpolated",
                         end_time |-> call.end_time,
                         duration_ns |-> call.duration_ns,
                         target_interval_ns |-> call.target_interval_ns,
                         interpolate_end |-> call.interpolate_end,
                         out |-> range_from_time_interpolated(
                                    fn_state.data, call.end_time, call.duration_ns,
                                    call.target_interval_ns, call.interpolate_end)]
    /\ UNCHANGED <<recorder_vars, fn_state>>
SpecInterp == InitInterp /\ [][SeriesRangeInterpolated]_vars

\* ------------------------------------------------------- the Polar router

ECG_SAMPLE_RATE_HZ == 130
ACC_SAMPLE_RATE_HZ == 200
NANOS_PER_SECOND == 1000000000

TimeSeries_new(sample_rate) == [data |-> <<>>, sample_rate |-> sample_rate]
\* the latest point of a series, if it has one
TimeSeries_last_point(series) ==
    IF series.data = <<>> THEN [some |-> FALSE]
    ELSE [some |-> TRUE, point |-> series.data[Len(series.data)]]

\* the ECG and accelerometer channels; handle_measurement_data touches no other
Channels_new ==
    [of |-> "Channels",
     ecg |-> TimeSeries_new(ECG_SAMPLE_RATE_HZ),
     acc_x |-> TimeSeries_new(ACC_SAMPLE_RATE_HZ),
     acc_y |-> TimeSeries_new(ACC_SAMPLE_RATE_HZ),
     acc_z |-> TimeSeries_new(ACC_SAMPLE_RATE_HZ)]

\* a start time that is taken from the wall clock although the channel has data
calculate_start_time_from_now(last_point_time, now, sample_count, timestep_ns) ==
    IF sample_count > 0 THEN saturating_sub(now, (sample_count - 1) * timestep_ns)
    ELSE now

\* a start time that puts the first sample of a first batch, not the last, on
\* the wall clock
calculate_start_time_unspread(last_point_time, now, sample_count, timestep_ns) ==
    IF last_point_time.some THEN last_point_time.time + timestep_ns
    ELSE now

calculate_start_time(last_point_time, now, sample_count, timestep_ns) ==
    IF last_point_time.some THEN last_point_time.time + timestep_ns
    ELSE IF sample_count > 0 THEN saturating_sub(now, (sample_count - 1) * timestep_ns)
    ELSE now

count_samples(data, kind) == Len(SelectSeq(data, LAMBDA d : d.kind = kind))

\* a loop that leaves the z axis out
RECURSIVE route_samples_two_axes(_, _, _, _, _, _)
route_samples_two_axes(ch, data, ecg_start_time, ecg_timestep, acc_start_time, acc_timestep) ==
    IF data = <<>> THEN ch
    ELSE LET earlier == SubSeq(data, 1, Len(data) - 1)
             d == data[Len(data)]
             done == route_samples_two_axes(ch, earlier, ecg_start_time, ecg_timestep,
                                            acc_start_time, acc_timestep)
             ecg_idx == count_samples(earlier, "Ecg")
             acc_idx == count_samples(earlier, "Acc")
         IN  IF d.kind = "Acc"
             THEN LET t == acc_start_time + acc_idx * acc_timestep
                  IN  [done EXCEPT
                         !.acc_x.data = TimeSeries_add_point(@, t, d.val[1]),
                         !.acc_y.data = TimeSeries_add_point(@, t, d.val[2])]
             ELSE LET t == ecg_start_time + ecg_idx * ecg_timestep
                  IN  [done EXCEPT !.ecg.data = TimeSeries_add_point(@, t, d.val[1])]

\* the loop over the batch: idx counts the samples of each kind seen so far
RECURSIVE route_samples(_, _, _, _, _, _)
route_samples(ch, data, ecg_start_time, ecg_timestep, acc_start_time, acc_timestep) ==
    IF data = <<>> THEN ch
    ELSE LET earlier == SubSeq(data, 1, Len(data) - 1)
             d == data[Len(data)]
             done == route_samples(ch, earlier, ecg_start_time, ecg_timestep,
                                   acc_start_time, acc_timestep)
             ecg_idx == count_samples(earlier, "Ecg")
             acc_idx == count_samples(earlier, "Acc")
         IN  IF d.kind = "Acc"
             THEN LET t == acc_start_time + acc_idx * acc_timestep
                  IN  [done EXCEPT
                         !.acc_x.data = TimeSeries_add_point(@, t, d.val[1]),
                         !.acc_y.data = TimeSeries_add_point(@, t, d.val[2]),
                         !.acc_z.data = TimeSeries_add_point(@, t, d.val[3])]
             ELSE LET t == ecg_start_time + ecg_idx * ecg_timestep
                  IN  [done EXCEPT !.ecg.data = TimeSeries_add_point(@, t, d.val[1])]

handle_measurement_data(ch, now, data_vec) ==
    LET ecg_count == count_samples(data_vec, "Ecg")
        acc_count == count_samples(data_vec, "Acc")
        ecg_timestep == NANOS_PER_SECOND \div ch.ecg.sample_rate
        acc_timestep == NANOS_PER_SECOND \div ch.acc_x.sample_rate
        ecg_last == TimeSeries_last_point(ch.ecg)
        acc_last == TimeSeries_last_point(ch.acc_x)
        ecg_start_time ==
            calculate_start_time(
                IF ecg_last.some THEN [some |-> TRUE, time |-> ecg_last.point.time]
                ELSE [some |-> FALSE],
                now, ecg_count, ecg_timestep)
        acc_start_time ==
            calculate_start_time(
                IF acc_last.some THEN [some |-> TRUE, time |-> acc_last.point.time]
                ELSE [some |-> FALSE],
                now, acc_count, acc_timestep)
    IN  route_samples(ch, data_vec, ecg_start_time, ecg_timestep,
                      acc_start_time, acc_timestep)

\* Batches of at most MaxBatchLen samples arrive at wall-clock times that may
\* lie before or after the stamps already given; the sample rates are changed
\* between batches
MaxBatchLen == 2
MaxEcgSamples == 3
MaxAccSamples == 2
RouterRates == {ECG_SAMPLE_RATE_HZ, 500000000, NANOS_PER_SECOND}
Nows == {0, 20000000}
PmdSamples == {[kind |-> "Ecg", val |-> <<7>>], [kind |-> "Acc", val |-> <<1, 2, 3>>]}
Batches == UNION {[1..n -> PmdSamples] : n \in 0..MaxBatchLen}
InitRouter ==
    /\ RecorderIdle
    /\ fn_state = Channels_new
    /\ fn_result = [of |-> "new"]
SetEcgSampleRate ==
    \E rate \in RouterRates :
        /\ fn_state.of = "Channels"
        /\ fn_state' = [fn_state EXCEPT !.ecg.sample_rate = rate]
        /\ fn_result' = [of |-> "set_ecg_sample_rate"]
        /\ UNCHANGED recorder_vars
SetAccSampleRate ==
    \E rate \in RouterRates :
        /\ fn_state.of = "Channels"
        /\ fn_state' = [fn_state EXCEPT !.acc_x.sample_rate = rate,
                                         !.acc_y.sample_rate = rate,
                                         !.acc_z.sample_rate = rate]
        /\ fn_result' = [of |-> "set_acc_sample_rate"]
        /\ UNCHANGED recorder_vars
HandleMeasurementData ==
    \E now \in Nows, data_vec \in Batches :
        /\ fn_state.of = "Channels"
        /\ Len(fn_state.ecg.data) + count_samples(data_vec, "Ecg") <= MaxEcgSamples
        /\ Len(fn_state.acc_x.data) + count_samples(data_vec, "Acc") <= MaxAccSamples
        /\ fn_state' = handle_measurement_data(fn_state, now, data_vec)
        /\ fn_result' = [of |-> "handle_measurement_data", now |-> now,
                         ecg_before |-> Len(fn_state.ecg.data),
                         acc_before |-> Len(fn_state.acc_x.data)]
        /\ UNCHANGED recorder_vars
NextRouter ==
    \/ SetEcgSampleRate
    \/ SetAccSampleRate
    \/ HandleMeasurementData
SpecRouter == InitRouter /\ [][NextRouter]_vars

\* ------------------------------------------------- heart-rate updates

\* Stamps are counted in ticks of HeartTimeScale nanoseconds and kept modulo
\* TimeModulus, which stands for the 2^64 of a u64
HeartTimeScale == 1000000
TimeModulus == 1073741824
OneSecondSpacing == NANOS_PER_SECOND \div HeartTimeScale
THIRTY_SECONDS_NS == 30 * OneSecondSpacing

\* a - b on u64 in a build without overflow checks
wrapping_sub(a, b) == IF a >= b THEN a - b ELSE a - b + TimeModulus

\* the largest r with r * r * count <= sum: (sum / count).sqrt() as i32
RECURSIVE sqrt_floor(_, _, _)
sqrt_floor(sum, count, r) ==
    IF (r + 1) * (r + 1) * count <= sum THEN sqrt_floor(sum, count, r + 1) ELSE r

\* PointSliceExt::rmssd as i32, for a slice of at least two points
rmssd(points) ==
    LET RECURSIVE squares(_)
        squares(n) ==
            IF n < 2 THEN 0
            ELSE squares(n - 1)
                   + (points[n].value - points[n - 1].value)
                       * (points[n].value - points[n - 1].value)
    IN  sqrt_floor(squares(Len(points)), Len(points) - 1, 0)

HeartChannels_new(overflow_checks) ==
    [of |-> "HeartChannels",
     hr |-> TimeSeries_new(1), rr |-> TimeSeries_new(1), hrv |-> TimeSeries_new(1),
     clock |-> 0, panicked |-> FALSE, overflow_checks |-> overflow_checks]

\* the loop that stamps the rr_len beat intervals back from now
RECURSIVE add_rr_points(_, _, _, _, _)
add_rr_points(data, rr, now, time_spacing, i) ==
    IF i >= Len(rr) THEN data
    ELSE add_rr_points(
             TimeSeries_add_point(data,
                 wrapping_sub(now, (Len(rr) - i - 1) * time_spacing), rr[i + 1]),
             rr, now, time_spacing, i + 1)

time_spacing_of(ch, now, rr_len) ==
    LET last == TimeSeries_last_point(ch.rr)
    IN  IF last.some THEN wrapping_sub(now, last.point.time) \div rr_len
        ELSE OneSecondSpacing

\* the first stamp of the loop is below zero
stamp_underflows(ch, now, rr_len) ==
    rr_len > 0 /\ (rr_len - 1) * time_spacing_of(ch, now, rr_len) > now

\* the start indices last_duration can take: the partition point, or any index
\* when the data is not partitioned by the cutoff (the result of
\* partition_point is then unspecified)
last_duration_starts(data, duration_ns) ==
    IF data = <<>> THEN {0}
    ELSE LET cutoff_time == saturating_sub(data[Len(data)].time, duration_ns)
             partitioned ==
                 \A i, j \in 1..Len(data) :
                     (i < j /\ data[j].time < cutoff_time) => data[i].time < cutoff_time
         IN  IF partitioned THEN {partition_point_time(data, cutoff_time)}
             ELSE 0..Len(data)

\* the states handle_heart_rate can leave the channels in
handle_heart_rate(ch, now, bpm, rr) ==
    LET with_hr == [ch EXCEPT !.hr.data = TimeSeries_add_point(@, now, bpm)]
        rr_len == Len(rr)
        last == TimeSeries_last_point(ch.rr)
    IN  IF rr_len = 0
        THEN IF last.some
             THEN {[with_hr EXCEPT !.rr.data = TimeSeries_add_point(@, now, last.point.value)]}
             ELSE {with_hr}
        ELSE IF stamp_underflows(ch, now, rr_len) /\ ch.overflow_checks
        THEN {[with_hr EXCEPT !.panicked = TRUE]}
        ELSE LET with_rr == [with_hr EXCEPT
                                !.rr.data = add_rr_points(@, rr, now,
                                                time_spacing_of(ch, now, rr_len), 0)]
                 with_hrv(recent_rr) ==
                     IF Len(recent_rr) >= 2
                     THEN [with_rr EXCEPT
                              !.hrv.data = TimeSeries_add_point(@, now, rmssd(recent_rr))]
                     ELSE with_rr
             IN  {with_hrv(Slice(with_rr.rr.data, start_idx, Len(with_rr.rr.data))) :
                    start_idx \in last_duration_starts(with_rr.rr.data, THIRTY_SECONDS_NS)}

\* Heart-rate updates arrive with a clock that does not go back; the build
\* has overflow checks or not
MaxHeartUpdates == 3
HeartNows == {0, 500, 1000, 31500}
HeartRates == {60}
BeatIntervals == {<<>>, <<800>>, <<800, 830>>}
InitHeart ==
    /\ RecorderIdle
    /\ \E oc \in BOOLEAN : fn_state = HeartChannels_new(oc)
    /\ fn_result = [of |-> "new"]
HandleHeartRate ==
    \E now \in HeartNows, bpm \in HeartRates, rr \in BeatIntervals :
        /\ fn_state.of = "HeartChannels"
        /\ ~fn_state.panicked
        /\ Len(fn_state.hr.data) < MaxHeartUpdates
        /\ now >= fn_state.clock
        /\ \E after \in handle_heart_rate(fn_state, now, bpm, rr) :
              fn_state' = [after EXCEPT !.clock = now]
        /\ fn_result' = [of |-> "handle_heart_rate", now |-> now, rr |-> rr,
                         before |-> [hr |-> fn_state.hr.data, rr |-> fn_state.rr.data,
                                     hrv |-> fn_state.hrv.data]]
        /\ UNCHANGED recorder_vars
SpecHeart == InitHeart /\ [][HandleHeartRate]_vars

\* ------------------------------------------------- sensor updates in the UI

\* the seven series of the UI's channel set
UiChannels_new ==
    [of |-> "Channels",
     ecg |-> TimeSeries_new(ECG_SAMPLE_RATE_HZ),
     acc_x |-> TimeSeries_new(ACC_SAMPLE_RATE_HZ),
     acc_y |-> TimeSeries_new(ACC_SAMPLE_RATE_HZ),
     acc_z |-> TimeSeries_new(ACC_SAMPLE_RATE_HZ),
     hr |-> TimeSeries_new(1), rr |-> TimeSeries_new(1), hrv |-> TimeSeries_new(1)]

set_ecg_sample_rate(ch, rate) == [ch EXCEPT !.ecg.sample_rate = rate]
set_acc_sample_rate(ch, rate) ==
    [ch EXCEPT !.acc_x.sample_rate = rate,
               !.acc_y.sample_rate = rate,
               !.acc_z.sample_rate = rate]

ZenSignal_new(should_autoconnect) ==
    [of |-> "ZenSignal",
     channels |-> UiChannels_new,
     connection_state |-> IF should_autoconnect THEN "Scanning" ELSE "Disconnected",
     receiver |-> <<>>,
     sent |-> 0]

\* a Disconnected status that is handled as an Error status is: the state
\* changes and the channels stay
handle_sensor_update_keep_channels(zs, update, now) ==
    IF update.type = "ConnectionStatus"
    THEN {[zs EXCEPT !.connection_state =
                        IF update.status = "Error" THEN "Disconnected" ELSE update.status]}
    ELSE IF update.type = "HeartRate"
    THEN {[zs EXCEPT !.channels = after] :
            after \in handle_heart_rate(zs.channels, now \div HeartTimeScale,
                                        update.bpm, update.rr)}
    ELSE IF update.type = "MeasurementData"
    THEN {[zs EXCEPT !.channels = handle_measurement_data(@, now, update.data)]}
    ELSE {[zs EXCEPT !.channels =
                        set_acc_sample_rate(set_ecg_sample_rate(@, update.ecg_rate),
                                            update.acc_rate)]}

\* one arm of the match on a received update; the handlers read the wall
\* clock themselves (now), heart-rate stamps in ticks of HeartTimeScale
handle_sensor_update(zs, update, now) ==
    IF update.type = "ConnectionStatus"
    THEN IF update.status = "Disconnected"
         THEN {[zs EXCEPT !.connection_state = "Disconnected",
                          !.channels = UiChannels_new]}
         ELSE IF update.status = "Error"
         THEN {[zs EXCEPT !.connection_state = "Disconnected"]}
         ELSE {[zs EXCEPT !.connection_state = update.status]}
    ELSE IF update.type = "HeartRate"
    THEN {[zs EXCEPT !.channels = after] :
            after \in handle_heart_rate(zs.channels, now \div HeartTimeScale,
                                        update.bpm, update.rr)}
    ELSE IF update.type = "MeasurementData"
    THEN {[zs EXCEPT !.channels = handle_measurement_data(@, now, update.data)]}
    ELSE {[zs EXCEPT !.channels =
                        set_acc_sample_rate(set_ecg_sample_rate(@, update.ecg_rate),
                                            update.acc_rate)]}

\* the loop of Message::Tick over the pending updates, in the order of
\* try_recv: the states it can end in
RECURSIVE Tick_loop(_, _)
Tick_loop(zs, pending) ==
    IF pending = <<>> THEN {zs}
    ELSE UNION {Tick_loop(after, Tail(pending)) :
                  after \in UNION {handle_sensor_update(zs, Head(pending), now) :
                                     now \in Nows}}

\* The sensor side sends at most MaxSensorUpdates updates, at most MaxPending
\* of them waiting in the channel; a Tick drains the channel
MaxSensorUpdates == 5
MaxPending == 2
UiBatches == {<<[kind |-> "Ecg", val |-> <<7>>]>>,
              <<[kind |-> "Acc", val |-> <<1, 2, 3>>]>>,
              <<[kind |-> "Acc", val |-> <<1, 2, 3>>], [kind |-> "Ecg", val |-> <<7>>]>>}
UiBeatIntervals == {<<>>, <<800>>}
SensorUpdates ==
    [type : {"ConnectionStatus"},
     status : {"Connecting", "Connected", "Disconnected", "Error"}]
    \cup [type : {"HeartRate"}, bpm : HeartRates, rr : UiBeatIntervals]
    \cup [type : {"MeasurementData"}, data : UiBatches]
    \cup [type : {"SampleRateConfig"},
          ecg_rate : {ECG_SAMPLE_RATE_HZ, NANOS_PER_SECOND},
          acc_rate : {ACC_SAMPLE_RATE_HZ}]
InitUi ==
    /\ RecorderIdle
    /\ \E should_autoconnect \in BOOLEAN : fn_state = ZenSignal_new(should_autoconnect)
    /\ fn_result = [of |-> "new"]
SensorSend ==
    \E update \in SensorUpdates :
        /\ fn_state.of = "ZenSignal"
        /\ fn_state.sent < MaxSensorUpdates
        /\ Len(fn_state.receiver) < MaxPending
        /\ fn_state' = [fn_state EXCEPT !.receiver = Append(@, update), !.sent = @ + 1]
        /\ fn_result' = [of |-> "send"]
        /\ UNCHANGED recorder_vars
Tick ==
    /\ fn_state.of = "ZenSignal"
    /\ fn_state.receiver # <<>>
    /\ fn_state' \in Tick_loop([fn_state EXCEPT !.receiver = <<>>], fn_state.receiver)
    /\ fn_result' = [of |-> "Tick", drained |-> fn_state.receiver,
                     before |-> [channels |-> fn_state.channels,
                                 connection_state |-> fn_state.connection_state]]
    /\ UNCHANGED recorder_vars
NextUi ==
    \/ SensorSend
    \/ Tick
SpecUi == InitUi /\ [][NextUi]_vars

\* ------------------------------------------------- the connection manager

\* stop_flag = NoTask is the None of Option<Arc<AtomicBool>>; otherwise it is
\* the task whose flag the manager holds
NoTask == 0

ConnectionManager_new ==
    [of |-> "ConnectionManager",
     command_receiver |-> <<>>,
     commands |-> 0,
     stop_flag |-> NoTask,
     tasks |-> <<>>,
     processed |-> <<>>]

\* a task as rt.spawn leaves it: its own flag, before PolarSensor::new returns
ConnectionTask_new == [should_stop |-> FALSE, pc |-> "new", status |-> "none"]

\* a manager that sets the flag of every task it has started
run_command_stop_all(cm, command) ==
    LET logged == [cm EXCEPT !.processed = Append(@, command)]
    IN  IF command = "Connect"
        THEN [logged EXCEPT !.stop_flag = Len(cm.tasks) + 1,
                            !.tasks = Append(@, ConnectionTask_new)]
        ELSE [logged EXCEPT !.stop_flag = NoTask,
                            !.tasks = [t \in 1..Len(cm.tasks) |->
                                          [cm.tasks[t] EXCEPT !.should_stop = TRUE]]]

\* one turn of the loop of ConnectionManager::run
run_command(cm, command) ==
    LET logged == [cm EXCEPT !.processed = Append(@, command)]
    IN  IF command = "Connect"
        THEN [logged EXCEPT !.stop_flag = Len(cm.tasks) + 1,
                            !.tasks = Append(@, ConnectionTask_new)]
        ELSE IF cm.stop_flag # NoTask
        THEN [logged EXCEPT !.tasks[cm.stop_flag].should_stop = TRUE,
                            !.stop_flag = NoTask]
        ELSE [logged EXCEPT !.stop_flag = NoTask]

\* The UI sends at most MaxCommands commands, at most MaxConnects of them
\* Connect; the device answers, fails or stays silent as it likes
MaxCommands == 4
MaxConnects == 2
ConnectionCommands == {"Connect", "Disconnect"}
ConnectsOf(commands) == Len(SelectSeq(commands, LAMBDA c : c = "Connect"))
InitConn ==
    /\ RecorderIdle
    /\ fn_state = ConnectionManager_new
    /\ fn_result = [of |-> "new"]
SendCommand ==
    \E command \in ConnectionCommands :
        /\ fn_state.of = "ConnectionManager"
        /\ fn_state.commands < MaxCommands
        /\ command = "Connect"
             => Len(fn_state.tasks) + ConnectsOf(fn_state.command_receiver) < MaxConnects
        /\ fn_state' = [fn_state EXCEPT !.command_receiver = Append(@, command),
                                        !.commands = @ + 1]
        /\ fn_result' = [of |-> "send"]
        /\ UNCHANGED recorder_vars
RunCommand ==
    /\ fn_state.of = "ConnectionManager"
    /\ fn_state.command_receiver # <<>>
    /\ fn_state' = run_command([fn_state EXCEPT !.command_receiver = Tail(@)],
                               Head(fn_state.command_receiver))
    /\ fn_result' = [of |-> "run"]
    /\ UNCHANGED recorder_vars
\* PolarSensor::new returns: start_data_collection sends Connecting, or the
\* task sends Error and ends
TaskNewSensor ==
    \E t \in 1..Len(fn_state.tasks), ok \in BOOLEAN :
        /\ fn_state.of = "ConnectionManager"
        /\ fn_state.tasks[t].pc = "new"
        /\ fn_state' = [fn_state EXCEPT
                           !.tasks[t].pc = IF ok THEN "connecting" ELSE "ended",
                           !.tasks[t].status = IF ok THEN "Connecting" ELSE "Error"]
        /\ fn_result' = [of |-> "PolarSensor::new", task |-> t]
        /\ UNCHANGED recorder_vars
\* a turn of the loop of connect_to_device with the flag clear: the attempt
\* connects, finds no adaptor, or fails and is repeated
TaskConnect ==
    \E t \in 1..Len(fn_state.tasks), outcome \in {"connected", "NoBleAdaptor", "failed"} :
        /\ fn_state.of = "ConnectionManager"
        /\ fn_state.tasks[t].pc = "connecting"
        /\ ~fn_state.tasks[t].should_stop
        /\ fn_state' =
              IF outcome = "connected"
              THEN [fn_state EXCEPT !.tasks[t].pc = "event_loop",
                                    !.tasks[t].status = "Connected"]
              ELSE IF outcome = "NoBleAdaptor"
              THEN [fn_state EXCEPT !.tasks[t].pc = "ended",
                                    !.tasks[t].status = "Error"]
              ELSE fn_state
        /\ fn_result' = [of |-> "connect", task |-> t, outcome |-> outcome]
        /\ UNCHANGED recorder_vars
\* the task reads its flag set, in connect_to_device or in the polling arm of
\* run_event_loop: it sends Disconnected and ends
TaskObserveStop ==
    \E t \in 1..Len(fn_state.tasks) :
        /\ fn_state.of = "ConnectionManager"
        /\ fn_state.tasks[t].pc \in {"connecting", "event_loop"}
        /\ fn_state.tasks[t].should_stop
        /\ fn_state' = [fn_state EXCEPT !.tasks[t].pc = "ended",
                                        !.tasks[t].status = "Disconnected"]
        /\ fn_result' = [of |-> "should_stop", task |-> t]
        /\ UNCHANGED recorder_vars
\* polar.event_loop() returns: the device is gone
TaskEventLoopEnds ==
    \E t \in 1..Len(fn_state.tasks) :
        /\ fn_state.of = "ConnectionManager"
        /\ fn_state.tasks[t].pc = "event_loop"
        /\ fn_state' = [fn_state EXCEPT !.tasks[t].pc = "ended",
                                        !.tasks[t].status = "Disconnected"]
        /\ fn_result' = [of |-> "event_loop", task |-> t]
        /\ UNCHANGED recorder_vars
NextConn ==
    \/ SendCommand
    \/ RunCommand
    \/ TaskNewSensor
    \/ TaskConnect
    \/ TaskObserveStop
    \/ TaskEventLoopEnds
SpecConn == InitConn /\ [][NextConn]_vars
\* the manager thread and the runtime's tasks keep running: a pending command
\* is received, PolarSensor::new returns, and a set flag is read at the next
\* poll; the device owes nothing
SpecConnLive ==
    /\ SpecConn
    /\ WF_vars(RunCommand)
    /\ WF_vars(TaskNewSensor)
    /\ WF_vars(TaskObserveStop)

\* ------------------------------------------------------------------ claims

Last(q) == q[Len(q)]
AllStagingEmpty(s) == \A c \in ChannelId : s.staging_buffers[c] = <<>>

\* the key age_out_old_data files a non-empty buffer under
FoldKey(c, buffer) == CacheKey(c, buffer[1].time, buffer[Len(buffer)].time)

\* an entry with exactly this key and this chunk is in the cache
Cached(cache, k, chunk) == \E i \in 1..Len(cache) : cache[i].key = k /\ cache[i].val = chunk

\* the step in which the writer thread ends the arm of the command it holds
WriterEndsArm == w_pc = "locked" /\ w_pc' # "locked"

\* C1: the writer processes the commands in send order; when a Flush or a Stop
\* is being processed, every command sent before it (every AddPoint of the
\* same caller among them) has been processed, i.e. appended to staging, and
\* none of them is still queued.
C1_SendOrder ==
    /\ \A i \in 1..Len(order) : order[i] = i
    /\ (w_pc = "locked" /\ w_cmd.type \in {"Flush", "Stop"}) =>
          /\ \A n \in 1..(w_cmd.seq - 1) : \E i \in 1..Len(order) : order[i] = n
          /\ \A i \in 1..Len(queue) : queue[i].seq > w_cmd.seq

\* a Flush sent after two AddPoint commands is being processed, and both
\* points are in staging
C1_Witness ==
    /\ w_pc = "locked" /\ w_cmd.type = "Flush" /\ w_cmd.seq = 3
    /\ StagingPoints(state.staging_buffers) = 2

\* C2: add_point only enqueues an AddPoint command: it can be called whoever
\* holds the state mutex, and the call changes neither the RecorderState
\* (staging, cache, memory_usage), nor the mutex, nor the disk.
C2_AddPointOnlyEnqueues ==
    /\ [](Alive /\ npoints < max_points => ENABLED AddPointCall)
    /\ [][npoints' # npoints =>
            /\ Len(queue') = Len(queue) + 1
            /\ queue' = Append(queue, Last(queue'))
            /\ Last(queue').type = "AddPoint"
            /\ UNCHANGED <<state, mutex, disk, w_pc, w_cmd>>]_vars

\* add_point was called while the state mutex was held, the writer holds the
\* mutex now and the AddPoint command is queued behind it
C2_Witness ==
    /\ ingest_saw /\ mutex = "writer"
    /\ queue # <<>> /\ Last(queue).type = "AddPoint"

\* the staging buffers flush_to_disk is called on in the arm being ended
StagedForFlush == FlushInput(w_cmd, state).staging_buffers

\* every buffer that was staged for the flush is in the cache afterwards, under
\* (channel, first staged time, last staged time), point for point
FoldedIntoCache ==
    \A c \in ChannelId :
        StagedForFlush[c] # <<>> =>
            Cached(state'.cache, FoldKey(c, StagedForFlush[c]), StagedForFlush[c])

\* C3 (as claimed): when write_to_disk is true and an AddPoint brings the
\* staging memory to the small threshold or above, the same command flushes:
\* afterwards staging is empty, memory_usage is 0 and the cache holds an entry
\* for every channel that had staged points.
C3_AutoFlushEmptiesStaging ==
    [][(/\ WriterEndsArm
        /\ w_cmd.type = "AddPoint"
        /\ state.write_to_disk
        /\ should_flush(FlushInput(w_cmd, state)))
       => (/\ AllStagingEmpty(state')
           /\ state'.memory_usage = 0
           /\ \A c \in ChannelId :
                 StagedForFlush[c] # <<>> =>
                    cache_contains(state'.cache, FoldKey(c, StagedForFlush[c])))]_vars

\* C4: a flush with no disk target (file_path is None) moves every non-empty
\* staging buffer into the cache under (channel, first staged time, last
\* staged time), the same points in the same order, and leaves staging empty
\* and memory_usage 0.
C4_FlushWithoutFileFolds ==
    [][(/\ WriterEndsArm
        /\ CallsFlush(w_cmd, state)
        /\ state.file_path = NoPath)
       => (/\ FoldedIntoCache
           /\ AllStagingEmpty(state')
           /\ state'.memory_usage = 0)]_vars

\* a flush without a file has folded a buffer of two points or more
C4_Witness ==
    /\ w_last.flushed = "ok" /\ ~w_last.disk_target
    /\ state.file_path = NoPath
    /\ AllStagingEmpty(state)
    /\ \E i \in 1..Len(state.cache) : Len(state.cache[i].val) >= 2

\* C5 (as claimed): when a disk operation of a flush fails, the points staged
\* for that flush are in the cache when the flush returns, and the writer
\* thread keeps running.
C5_FailedFlushKeepsDataInCache ==
    [][(WriterEndsArm /\ w_last'.flushed = "failed")
       => (/\ FoldedIntoCache
           /\ (w_cmd.type # "Stop" => w_pc' = "recv"))]_vars

\* the points sent for channel c, in send order
SentOn(c) == SelectSeq(sent, LAMBDA cmd : cmd.channel = c)

Occurrences(seq, x) == Cardinality({i \in 1..Len(seq) : seq[i] = x})

\* C6 (as claimed): no point is appended to a channel's on-disk arrays more
\* than once: a timestamp is in times no more often than points with that
\* timestamp were sent for the channel, and no value (each point has its own)
\* is in values twice.
C6_NoPointWrittenTwice ==
    \A p \in Paths, c \in ChannelId :
        LET g == disk[p].groups[c] IN
        /\ \A i \in 1..Len(g.times) :
              Occurrences(g.times, g.times[i])
                 <= Cardinality({j \in 1..Len(SentOn(c)) : SentOn(c)[j].time = g.times[i]})
        /\ \A i \in 1..Len(g.values) : Occurrences(g.values, g.values[i]) = 1

\* the (time, value) points of a sequence of AddPoint commands
PointsOf(cmds) == [i \in 1..Len(cmds) |-> Point(cmds[i].time, cmds[i].value)]

NonDecreasing(cmds) == \A i \in 1..(Len(cmds) - 1) : cmds[i].time <= cmds[i + 1].time

\* reader r reads the file for (channel, t_first, t_last) of a recording that
\* was started before any point was sent, all points sent in non-decreasing
\* time order, every command processed and every staging buffer flushed
RoundTripRead(r) ==
    LET pts == SentOn(r_key[r][1])
    IN  /\ r_pc[r] = "reading" /\ r_pc'[r] # "reading"
        /\ rec_from /\ r_path[r] = state.file_path
        /\ queue = <<>> /\ w_pc = "recv"
        /\ AllStagingEmpty(state)
        /\ \A c \in ChannelId : NonDecreasing(SentOn(c))
        /\ pts # <<>>
        /\ r_key[r] = CacheKey(r_key[r][1], pts[1].time, pts[Len(pts)].time)

\* C7 (as claimed): after start_recording, N points added to a channel in
\* non-decreasing time order and flushed, by one flush or by several, a
\* read_range(channel, t_first, t_last) that is served from the file gets
\* exactly those N points in the order they were added.
C7_RecorderRoundTrip ==
    [][\A r \in readers :
          RoundTripRead(r) =>
             /\ r_pc'[r] = "relock"
             /\ r_data'[r] = PointsOf(SentOn(r_key[r][1]))]_vars

\* reader r calls read_range with arguments of its own choice
ReadCallStep(r) == r_pc[r] = "idle" /\ nreads'[r] = nreads[r] + 1

KeyCached(cache, k) == \E i \in 1..Len(cache) : cache[i].key = k

\* reader r calls read_range again for the range of its last call, which
\* returned Ok with the range a key of the cache, as it is now
SecondCall(r) ==
    /\ ReadCallStep(r)
    /\ r_ret[r].src # "never" /\ r_ret[r].ok /\ r_ret[r].cached
    /\ r_key'[r] = r_key[r]
    /\ KeyCached(state.cache, r_key[r])

\* C8 (as claimed): a second read_range for a range that is in the cache reads
\* no file and returns the data of the first call, whatever AddPoint commands
\* the writer thread processed between the two calls.
C8_CacheTransparency_AnyAdds ==
    [][\A r \in readers :
          SecondCall(r) =>
             /\ r_pc'[r] = "idle" /\ r_ret'[r].ok
             /\ between[r] \in {"nothing", "adds"} => r_ret'[r].data = r_ret[r].data]_vars

\* C8 (amended): a second read_range for a range that is in the cache reads no
\* file; it returns the data of the first call when the writer thread has
\* processed no command and no other reader has cached a chunk since the first
\* call began.
C8_CacheTransparency ==
    [][\A r \in readers :
          SecondCall(r) =>
             /\ r_pc'[r] = "idle" /\ r_ret'[r].ok
             /\ between[r] = "nothing" => r_ret'[r].data = r_ret[r].data]_vars

\* the first call read the file and cached the chunk, the second call had it
\* from the cache
C8_Witness ==
    /\ r_repeat["r1"] /\ nreads["r1"] = 2 /\ between["r1"] = "nothing"
    /\ r_path["r1"] # NoPath
    /\ r_ret["r1"].src = "cache" /\ r_ret["r1"].data # <<>>
    /\ r_ret["r1"].data = r_data["r1"]

\* the staged points of the range reader r asks for
StagedInRange(r) ==
    InRange(state.staging_buffers[r_key'[r][1]], r_key'[r][2], r_key'[r][3])

\* C9: when the channel's staging buffer has a point with
\* start <= time <= end, read_range returns the staged points of the range, in
\* staging order, and nothing else; the recorder state, cache and its recency
\* order included, and the files are left as they were.
C9_StagingFirst ==
    [][\A r \in readers :
          (ReadCallStep(r) /\ StagedInRange(r) # <<>>) =>
             /\ r_pc'[r] = "idle"
             /\ r_ret'[r].ok /\ r_ret'[r].data = StagedInRange(r)
             /\ state' = state /\ disk' = disk]_vars

\* staged points were returned for a range whose key is in the cache with
\* another chunk
C9_Witness ==
    /\ r_ret["r1"].src = "staging"
    /\ \E i \in 1..Len(state.cache) :
          /\ state.cache[i].key = r_key["r1"]
          /\ state.cache[i].val # r_ret["r1"].data

\* C10: with no staged point in range and no file path, read_range returns
\* the chunk cached under exactly (channel, start, end) when there is one and
\* an empty result when there is none.
C10_ExactKeyOnly ==
    [][\A r \in readers :
          (ReadCallStep(r) /\ StagedInRange(r) = <<>> /\ state.file_path = NoPath) =>
             /\ r_pc'[r] = "idle" /\ r_ret'[r].ok
             /\ \A i \in 1..Len(state.cache) :
                   state.cache[i].key = r_key'[r] => r_ret'[r].data = state.cache[i].val
             /\ ~KeyCached(state.cache, r_key'[r]) => r_ret'[r].data = <<>>]_vars

\* an empty result for a range that contains a cached chunk of the channel
C10_Witness ==
    /\ r_ret["r1"].src = "empty" /\ state.file_path = NoPath
    /\ \E i \in 1..Len(state.cache) :
          /\ state.cache[i].key[1] = r_key["r1"][1]
          /\ state.cache[i].key # r_key["r1"]
          /\ r_key["r1"][2] <= state.cache[i].key[2]
          /\ state.cache[i].key[3] <= r_key["r1"][3]

\* reader r returns from a read_range that was served from the file
ReadServedFromFile(r) == r_pc[r] = "prefetch" /\ r_pc'[r] = "idle"

\* what C11 says of the read_range of reader r that is being completed, with
\* the range before (channel, start, end) starting at prev_start
PrefetchedAround(r, prev_start) ==
    LET channel == r_key[r][1]
        start_time == r_key[r][2]
        end_time == r_key[r][3]
        width == end_time - start_time
        file == disk[r_path[r]]
        prev == read_from_file(file, channel, prev_start, start_time)
        next == read_from_file(file, channel, end_time, end_time + width)
        prev_key == CacheKey(channel, prev_start, start_time)
        next_key == CacheKey(channel, end_time, end_time + width)
    IN  /\ Cached(state'.cache, r_key[r], r_ret'[r].data)
        /\ prev.ok => KeyCached(state'.cache, prev_key)
        /\ next.ok => KeyCached(state'.cache, next_key)
        /\ (prev.ok /\ ~KeyCached(state.cache, prev_key)) =>
              Cached(state'.cache, prev_key, prev.data)
        /\ (next.ok /\ ~KeyCached(state.cache, next_key)) =>
              Cached(state'.cache, next_key, next.data)
        /\ \A i \in 1..Len(state.cache) :
              Cached(state'.cache, state.cache[i].key, state.cache[i].val)

IdleStopCall == ctl_pc = "idle" /\ ~is_recording /\ nidle_stops' = nidle_stops + 1

\* C12: stop_recording called while not recording returns Ok and is a no-op:
\* no Flush is enqueued, and is_recording and the recorder state (write_to_disk,
\* file path, staging buffers, cache) are unchanged, the first time and every
\* time after.
C12_IdempotentStop ==
    [][IdleStopCall =>
          /\ ctl_ret' = "Ok" /\ ctl_pc' = "idle"
          /\ UNCHANGED <<queue, nsent, is_recording, state, disk>>]_vars

\* stop_recording was called twice after a recording had been stopped, with a
\* point staged
C12_Witness ==
    /\ nidle_stops = 2 /\ nstarts = 1 /\ ~is_recording
    /\ ctl_pc = "idle" /\ ctl_ret = "Ok"
    /\ state.file_path # NoPath
    /\ ~AllStagingEmpty(state)

\* C13: recording is a two-state machine. is_recording is false initially; it
\* becomes true only by a start_recording that returns Ok and enables disk
\* recording to a new file, and every such call makes it true; it becomes
\* false again only when stop_recording completes, and every stop_recording
\* that completes leaves it false. While recording, a start_recording call
\* can be made, returns Err, and is_recording, write_to_disk and the file path
\* stay as they are.
C13_TwoStateMachine ==
    /\ ~is_recording
    /\ [][/\ (~is_recording /\ is_recording') =>
                /\ ctl_pc = "idle" /\ ctl_ret' = "Ok" /\ nstarts' = nstarts + 1
                /\ state'.write_to_disk /\ state'.file_path = nstarts'
          /\ nstarts' # nstarts => (~is_recording /\ is_recording')
          /\ (is_recording /\ ~is_recording') =>
                ctl_pc \in {"stop_lock", "drop_stop_lock"}
          /\ (ctl_pc = "stop_lock" /\ ctl_pc' = "idle") =>
                (~is_recording' /\ ctl_ret' = "Ok")
          /\ (is_recording /\ ctl_pc = "idle" /\ ctl_pc' = "idle") =>
                /\ UNCHANGED <<is_recording, nstarts>>
                /\ state'.write_to_disk = state.write_to_disk
                /\ state'.file_path = state.file_path
                /\ ctl_ret' # ctl_ret => ctl_ret' = "Err"]_vars
    /\ []((is_recording /\ ctl_pc = "idle") =>
             ENABLED (StartRecording /\ ctl_ret' = "Err"))

\* start_recording has returned Err during a recording with points staged
C13_Witness ==
    /\ is_recording /\ ctl_pc = "idle" /\ ctl_ret = "Err"
    /\ state.write_to_disk /\ state.file_path = 1
    /\ ~AllStagingEmpty(state)

\* the recorder is Idle after a recording was stopped, and every point staged
\* for the flush was sent since
IdleFlush ==
    /\ WriterEndsArm /\ CallsFlush(w_cmd, state)
    /\ ~is_recording /\ idle_since > 0
    /\ \A c \in ChannelId : \A i \in 1..Len(StagedForFlush[c]) :
          StagedForFlush[c][i].value > idle_since

\* C14 (as claimed): a flush that runs while the recorder is Idle, also after a
\* start_recording/stop_recording cycle has completed and its Flush has been
\* processed, performs no file write, while staging and caching behave as in
\* Recording: the staged points are folded into the cache.
C14_IdleFlushWritesNoFile ==
    [][IdleFlush =>
          /\ disk' = disk
          /\ w_last'.flushed = "ok" => (FoldedIntoCache /\ AllStagingEmpty(state'))]_vars

\* point n is in the file of path p
OnDisk(n, p) ==
    \E c \in ChannelId :
        \E i \in 1..Min(Len(disk[p].groups[c].times), Len(disk[p].groups[c].values)) :
            disk[p].groups[c].values[i] = n

\* stop_recording has just sent the Flush of the first recording, which was
\* started before any point was added; point n was added before
StopCalledAfter(n) ==
    /\ ctl_pc = "stop_lock" /\ nstarts = 1 /\ rec_from
    /\ queue # <<>> /\ Last(queue).type = "Flush" /\ Last(queue).seq = nsent
    /\ \E i \in 1..Len(sent) : sent[i].seq = n

\* C15 (as claimed): every point whose add_point call returned, during a
\* recording, before stop_recording was called is eventually in the recording
\* file, if the disk writes succeed.
C15_StopFlushesToRecording ==
    \A n \in 1..MaxPointsStop :
        [](StopCalledAfter(n) => <>(OnDisk(n, 1) \/ nfail > 0))

\* Drop::drop has begun
Dropping == ctl_pc \in {"drop_stop_lock", "drop_send", "joining"}

C17_ClosedQueueReturnsErr ==
    [][(w_pc = "exited" /\ ctl_pc # "stop_lock") =>
          /\ (npoints' = npoints + 1 => add_ret' = "Err")
          /\ ((is_recording /\ ctl_ret' # ctl_ret) =>
                 (ctl_ret' = "Err" /\ is_recording'))]_vars

\* the prefetch of reader r is about to call read_from_file: a neighbour of
\* the requested range is not in the cache
PrefetchReadsFile(r) ==
    LET channel == r_key[r][1]
        start_time == r_key[r][2]
        end_time == r_key[r][3]
    IN  \/ ~cache_contains(state.cache,
              CacheKey(channel, prev_chunk_start(start_time, end_time), start_time))
        \/ ~cache_contains(state.cache,
              CacheKey(channel, end_time, next_chunk_end(start_time, end_time)))

\* C18: a reader that is about to read the file, for the requested range or for
\* a neighbour of it, does not hold the state mutex
C18_NoDiskReadUnderLock ==
    \A r \in readers :
        /\ r_pc[r] = "reading" => mutex # r
        /\ (r_pc[r] = "prefetch" /\ PrefetchReadsFile(r)) => mutex # r

\* reader r returns from a read of the file while reader x has returned from
\* one for the same key: both calls missed the cache and read the disk
BothReadDisk(r, x) ==
    /\ x # r
    /\ r_pc[r] = "prefetch" /\ r_pc'[r] = "idle"
    /\ r_pc[x] = "idle" /\ r_ret[x].src = "file" /\ r_ret[x].ok
    /\ r_key[x] = r_key[r]
EntriesFor(cache, key) == {i \in 1..Len(cache) : cache[i].key = key}

\* C19: when the later of two read_range calls that both read the disk for the
\* same key returns, the cache holds one entry for the key, and its value is
\* the data one of the two calls returned
C19_ConcurrentReadsConverge ==
    [][\A r \in readers, x \in readers :
          BothReadDisk(r, x) =>
              /\ Cardinality(EntriesFor(state'.cache, r_key[r])) = 1
              /\ cache_peek(state'.cache, r_key[r])
                     \in {r_ret'[r].data, r_ret'[x].data}]_vars
C19_Witness ==
    /\ r_pc["r1"] = "idle" /\ r_pc["r2"] = "idle"
    /\ r_ret["r1"].src = "file" /\ r_ret["r2"].src = "file"
    /\ r_ret["r1"].ok /\ r_ret["r2"].ok
    /\ r_key["r1"] = r_key["r2"]
    /\ r_ret["r1"].data # r_ret["r2"].data
    /\ w_last.flushed = "ok"
    /\ cache_peek(state.cache, r_key["r1"]) = r_ret["r2"].data

\* C20: in every file, the times and values arrays of a channel have the same
\* length, the i-th time and the i-th value are those of one point that was
\* sent for the channel, and times is non-decreasing when the channel's points
\* were sent in non-decreasing time order
C20_OnDiskAligned ==
    \A p \in Paths, c \in ChannelId :
        LET g == disk[p].groups[c]
            pts == SentOn(c)
        IN  /\ Len(g.times) = Len(g.values)
            /\ \A i \in 1..Min(Len(g.times), Len(g.values)) :
                  \E j \in 1..Len(pts) :
                      pts[j].time = g.times[i] /\ pts[j].value = g.values[i]
            /\ NonDecreasing(pts) =>
                  \A i \in 1..(Len(g.times) - 1) : g.times[i] <= g.times[i + 1]

IsPrefix(old, new) ==
    Len(old) <= Len(new) /\ \A i \in 1..Len(old) : new[i] = old[i]

C22_FlushThresholds ==
    fn_state.of = "RecorderState" =>
        /\ fn_state.memory_usage = 16 * fn_state.staged
        /\ fn_state.write_to_disk =>
              /\ fn_result.flush <=> fn_state.memory_usage >= 100000
              /\ fn_result.flush <=> fn_state.staged >= 6250
        /\ ~fn_state.write_to_disk =>
              (fn_result.flush <=>
                  fn_state.memory_usage >= fn_state.max_memory_mb * 1048576)
C22_Witness ==
    /\ fn_state.of = "RecorderState" /\ fn_result.flush
    /\ \/ fn_state.write_to_disk /\ fn_state.staged = 6250
       \/ ~fn_state.write_to_disk /\ fn_state.max_memory_mb = 1
          /\ fn_state.staged = 65536

\* the earliest and the latest time stored in a file that stores some
FileTimes(file) ==
    UNION {{file.groups[c].times[i] : i \in 1..Len(file.groups[c].times)} : c \in ChannelId}
TimeSpan(file) ==
    <<CHOOSE t \in FileTimes(file) : \A u \in FileTimes(file) : t <= u,
      CHOOSE t \in FileTimes(file) : \A u \in FileTimes(file) : t >= u>>

\* C23: when open_recording has returned Ok for file f, file_time_range is the
\* earliest and the latest time in f and the cache is empty; while f is open, a
\* read_range that finds its range neither staged nor cached reads f; when
\* close_recording has returned, file_time_range is None and the cache is empty
C23_OpenedFileIsRead ==
    [][/\ (fn_result'.of = "open_recording" /\ fn_result'.ok
             /\ (fn_result' # fn_result \/ ctl_ret' # ctl_ret))
          => /\ state'.file_time_range = TimeSpan(disk[fn_result'.file])
             /\ fn_result'.range = TimeSpan(disk[fn_result'.file])
             /\ state'.cache = <<>>
       /\ \A r \in readers :
             (/\ fn_result.of = "open_recording" /\ fn_result.ok
              /\ state.file_time_range # <<>>
              /\ nreads'[r] = nreads[r] + 1
              /\ InRange(state.staging_buffers[r_key'[r][1]], r_key'[r][2], r_key'[r][3]) = <<>>
              /\ ~cache_contains(state.cache, r_key'[r]))
             => (r_pc'[r] = "reading" /\ r_path'[r] = fn_result.file)
       /\ ncloses' = ncloses + 1
          => (state'.file_time_range = <<>> /\ state'.cache = <<>>)]_vars

\* the points of the log inside the window of a query, and those before it
WindowStart(q) == Max(0, q.end_time - q.duration_ns)
InWindow(log, q) ==
    SelectSeq(log, LAMBDA p : WindowStart(q) <= p.time /\ p.time <= q.end_time)
BeforeWindow(log, q) == SelectSeq(log, LAMBDA p : p.time < WindowStart(q))
IsSlice(out, log) ==
    \E a \in 1..(Len(log) + 1), b \in 0..Len(log) : out = SubSeq(log, a, b)

\* C24: range_from_time returns exactly the appended points with
\* max(0, end_time - duration) <= time <= end_time, a contiguous slice in append
\* order (empty when the window holds no point)
C24_WindowExact ==
    fn_result.of = "range_from_time" =>
        /\ fn_result.out = InWindow(fn_state.appended, fn_result)
        /\ IsSlice(fn_result.out, fn_state.appended)
C24_Witness ==
    /\ fn_result.of = "range_from_time"
    /\ Len(fn_state.appended) = 3 /\ Len(fn_result.out) = 2
    /\ fn_result.duration_ns > 0
    /\ fn_result.out[1].time = fn_result.end_time - fn_result.duration_ns
    /\ fn_result.out[2].time = fn_result.end_time

\* C25: the series holds the points in the order they were appended;
\* last_points(n) returns the last min(n, len) of them and last_duration(d) the
\* suffix of those with time >= latest time - d, in that order
C25_MonotonicAppend ==
    fn_state.of = "TimeSeries" =>
        LET log == fn_state.appended
            len == Len(log)
        IN  /\ fn_state.data = log
            /\ fn_result.of = "last_points" =>
                  fn_result.out = SubSeq(log, len - Min(fn_result.n, len) + 1, len)
            /\ fn_result.of = "last_duration" =>
                  /\ fn_result.out =
                        SelectSeq(log, LAMBDA p : p.time >= log[len].time - fn_result.duration_ns)
                  /\ fn_result.out = SubSeq(log, len - Len(fn_result.out) + 1, len)
C25_Witness ==
    /\ fn_state.of = "TimeSeries" /\ Len(fn_state.appended) = 3
    /\ fn_state.appended[1].value # fn_state.appended[2].value
    /\ \/ fn_result.of = "last_points" /\ fn_result.n = 2
       \/ fn_result.of = "last_duration" /\ Len(fn_result.out) = 2
    /\ fn_result.out = <<fn_state.appended[2], fn_state.appended[3]>>

\* C26: when the window holds a point, its first point is after the window
\* start and a point before the start exists, range_from_time_with_fill returns
\* a point at the start with the value of the last point before it, then the
\* points of the window; when the first point of the window is at the start or
\* no earlier point exists it returns the points of the window
C26_ForwardFill ==
    fn_result.of = "range_from_time_with_fill" =>
        LET in_window == InWindow(fn_state.appended, fn_result)
            before == BeforeWindow(fn_state.appended, fn_result)
        IN  /\ (in_window # <<>> /\ in_window[1].time > WindowStart(fn_result)
                 /\ before # <<>>)
                => fn_result.out =
                      <<Point(WindowStart(fn_result), before[Len(before)].value)>>
                         \o in_window
            /\ ((in_window # <<>> /\ in_window[1].time = WindowStart(fn_result))
                 \/ before = <<>>)
                => fn_result.out = in_window
C26_Witness ==
    /\ fn_result.of = "range_from_time_with_fill"
    /\ Len(fn_result.out) = 3
    /\ fn_result.out[1].time = fn_result.end_time - fn_result.duration_ns
    /\ fn_result.out[1].time > fn_state.appended[1].time
    /\ fn_result.out[1].value = fn_state.appended[1].value
    /\ fn_result.out[2] = fn_state.appended[2]
    /\ fn_result.out[1].value # fn_result.out[2].value

\* C27: when some point has time <= the window start, the result of
\* range_from_time_with_fill is not empty and its first point is at the window
\* start
C27_BeginsAtLeftEdge ==
    (/\ fn_result.of = "range_from_time_with_fill"
     /\ \E i \in 1..Len(fn_state.appended) :
           fn_state.appended[i].time <= WindowStart(fn_result))
    => /\ fn_result.out # <<>>
       /\ fn_result.out[1].time = WindowStart(fn_result)

\* the positions of the output of a query that carry the time t
PointsAt(out, t) == {k \in 1..Len(out) : out[k].time = t}
\* the value on the line through p1 and p2 at time t, rounded
OnLine(p1, p2, t) ==
    round(p1.value * (p2.time - p1.time) + (p2.value - p1.value) * (t - p1.time),
          p2.time - p1.time)

\* C28: when the selection of range_from_time_interpolated holds a point at or
\* before the window start and a later point at or after it, the output has
\* exactly one point at the window start, and its value is the rounded linear
\* interpolation of a straddling pair (the point's own value at p1.time or
\* p2.time)
C28_ExactlyOneAtStart ==
    fn_result.of = "range_from_time_interpolated" =>
        LET sel == points_for_interp_of(fn_state.appended, fn_result.end_time,
                                        fn_result.duration_ns)
            start == WindowStart(fn_result)
            out == fn_result.out
        IN  (\E i, j \in 1..Len(sel) :
                i < j /\ sel[i].time <= start /\ sel[j].time >= start
                /\ sel[i].time < sel[j].time)
            => /\ Cardinality(PointsAt(out, start)) = 1
               /\ \E i \in 1..(Len(sel) - 1) :
                     /\ sel[i].time <= start /\ sel[i + 1].time >= start
                     /\ sel[i].time < sel[i + 1].time
                     /\ \A k \in PointsAt(out, start) :
                           out[k].value = OnLine(sel[i], sel[i + 1], start)

\* the condition under which the end of the window is extrapolated
ExtrapolationDue(log, end_time) ==
    /\ Len(log) >= 2
    /\ log[Len(log)].time < end_time
    /\ log[Len(log)].time # log[Len(log) - 1].time
    /\ end_time - log[Len(log)].time <= 3 * (log[Len(log)].time - log[Len(log) - 1].time)
NoPointAfter(log, end_time) == \A i \in 1..Len(log) : log[i].time <= end_time

\* C29 as stated: with interpolate_end true and no real point after end_time
\* the output has a point at end_time exactly when the last point is before
\* end_time, the last two points differ in time and end_time is at most three
\* of their gaps away; with interpolate_end false the output has no point at
\* end_time
C29_EndExtrapolation ==
    fn_result.of = "range_from_time_interpolated" =>
        LET log == fn_state.appended
            e == fn_result.end_time
        IN  /\ (fn_result.interpolate_end /\ NoPointAfter(log, e))
                => (PointsAt(fn_result.out, e) # {} <=> ExtrapolationDue(log, e))
            /\ ~fn_result.interpolate_end => PointsAt(fn_result.out, e) = {}

\* C29 (amended): the same for a selection of at least two points and a window
\* of positive width, where the point at end_time is the only one and carries
\* the value extrapolated from the last two points
C29_EndExtrapolationInSelection ==
    (/\ fn_result.of = "range_from_time_interpolated"
     /\ Len(points_for_interp_of(fn_state.appended, fn_result.end_time,
                                 fn_result.duration_ns)) >= 2
     /\ WindowStart(fn_result) < fn_result.end_time)
    => LET log == fn_state.appended
           len == Len(log)
           e == fn_result.end_time
           at_end == PointsAt(fn_result.out, e)
       IN  /\ (fn_result.interpolate_end /\ NoPointAfter(log, e))
               => /\ at_end # {} <=> ExtrapolationDue(log, e)
                  /\ ExtrapolationDue(log, e)
                       => /\ at_end = {Len(fn_result.out)}
                          /\ fn_result.out[Len(fn_result.out)].value =
                                OnLine(log[len - 1], log[len], e)
           /\ ~fn_result.interpolate_end => at_end = {}
C29_Witness ==
    /\ fn_result.of = "range_from_time_interpolated"
    /\ fn_result.interpolate_end
    /\ Len(fn_state.appended) = 2
    /\ fn_state.appended[1].time + 1 = fn_state.appended[2].time
    /\ fn_result.end_time = fn_state.appended[2].time + 3
    /\ fn_result.duration_ns = 4
    /\ fn_state.appended[2].value = 10 /\ fn_state.appended[1].value = 0
    /\ PointsAt(fn_result.out, fn_result.end_time) = {Len(fn_result.out)}
    /\ fn_result.out[Len(fn_result.out)].value = 40

\* the stamps of a series
TimesOf(series) == [i \in 1..Len(series.data) |-> series.data[i].time]
StrictlyIncreasing(times) == \A i \in 1..(Len(times) - 1) : times[i] < times[i + 1]
\* every point from position from on is one interval after its predecessor
Continuous(series, from) ==
    \A i \in from..Len(series.data) :
        i > 1 => series.data[i].time
                   = series.data[i - 1].time + (1000000000 \div series.sample_rate)

\* C30: with sample rates between 1 and 1e9 Hz the ECG and accelerometer
\* series are strictly increasing in time, and every sample a batch adds to a
\* series that has a predecessor is stamped exactly one interval
\* (1e9 div sample rate) after it, whatever the wall-clock time of the batch and
\* whatever the rate was before
C30_RouterContinuity ==
    fn_state.of = "Channels" =>
        /\ StrictlyIncreasing(TimesOf(fn_state.ecg))
        /\ StrictlyIncreasing(TimesOf(fn_state.acc_x))
        /\ TimesOf(fn_state.acc_y) = TimesOf(fn_state.acc_x)
        /\ TimesOf(fn_state.acc_z) = TimesOf(fn_state.acc_x)
        /\ fn_result.of = "handle_measurement_data" =>
              /\ Continuous(fn_state.ecg, fn_result.ecg_before + 1)
              /\ Continuous(fn_state.acc_x, fn_result.acc_before + 1)
C30_Witness ==
    /\ fn_state.of = "Channels"
    /\ fn_result.of = "handle_measurement_data"
    /\ fn_result.ecg_before = 2 /\ Len(fn_state.ecg.data) = 3
    /\ fn_result.now < fn_state.ecg.data[2].time
    /\ fn_state.ecg.data[2].time - fn_state.ecg.data[1].time = 2
    /\ fn_state.ecg.data[3].time - fn_state.ecg.data[2].time = 1
    /\ Len(fn_state.acc_x.data) = 2

\* the stamps a first batch of count samples gets on an empty series
FirstBatchStamps(series, now) ==
    LET count == Len(series.data)
        interval == 1000000000 \div series.sample_rate
        back == (count - 1) * interval
    IN  [i \in 1..count |-> (IF now >= back THEN now - back ELSE 0) + (i - 1) * interval]
\* the last sample of the batch is on the batch timestamp and none is after it
LandsOnNow(series, now) ==
    /\ series.data[Len(series.data)].time = now
    /\ \A i \in 1..Len(series.data) : series.data[i].time <= now
FirstBatchOf(series, before) == before = 0 /\ Len(series.data) >= 1

SpreadBeats(before, rr, now) ==
    LET k == Len(rr)
        spacing == IF before = <<>> THEN 1000000000 \div HeartTimeScale
                   ELSE (now - before[Len(before)].time) \div k
    IN  [i \in 1..k |-> Point(now - (k - i) * spacing, rr[i])]

\* C32: with a clock that does not go back the HR and RR series stay in
\* non-decreasing time order; an update without beat intervals appends one RR
\* point at now with the last RR value (nothing when RR is empty), an update
\* with k beat intervals appends k RR points (now - last RR time) / k apart
\* (one second when RR was empty), the last at now and the first not before
\* the previous last RR point
C32_HeartRateOrder ==
    fn_state.of = "HeartChannels" =>
        /\ NonDecreasing(fn_state.hr.data)
        /\ NonDecreasing(fn_state.rr.data)
        /\ fn_result.of = "handle_heart_rate" =>
              LET before == fn_result.before.rr
                  now == fn_result.now
              IN  IF fn_result.rr = <<>>
                  THEN fn_state.rr.data =
                         IF before = <<>> THEN <<>>
                         ELSE Append(before, Point(now, before[Len(before)].value))
                  ELSE fn_state.rr.data = before \o SpreadBeats(before, fn_result.rr, now)

\* the RR points in the trailing 30 seconds of the series
TrailingRR(data) ==
    SelectSeq(data, LAMBDA p : p.time >= data[Len(data)].time - 30 * (1000000000 \div HeartTimeScale))

\* C38: a heart-rate update appends exactly one HR point at now; it appends
\* exactly one HRV point, at now, when it carries a beat interval and the RR
\* series then has at least two points in its trailing 30 seconds, and no HRV
\* point otherwise
C38_OneHrvPerBeatUpdate ==
    (fn_state.of = "HeartChannels" /\ fn_result.of = "handle_heart_rate") =>
        LET now == fn_result.now
            hr == fn_state.hr.data
            hrv == fn_state.hrv.data
            due == fn_result.rr # <<>> /\ fn_state.rr.data # <<>>
                     /\ Len(TrailingRR(fn_state.rr.data)) >= 2
        IN  /\ Len(hr) = Len(fn_result.before.hr) + 1
            /\ SubSeq(hr, 1, Len(hr) - 1) = fn_result.before.hr
            /\ hr[Len(hr)].time = now
            /\ IF due
               THEN /\ Len(hrv) = Len(fn_result.before.hrv) + 1
                    /\ SubSeq(hrv, 1, Len(hrv) - 1) = fn_result.before.hrv
                    /\ hrv[Len(hrv)].time = now
               ELSE hrv = fn_result.before.hrv

\* C34: as long as a key stays in the cache the chunk stored under it does not
\* change: no step replaces the chunk of a key that is in the cache before and
\* after the step
C34_CacheKeyImmutable ==
    [][\A i \in 1..Len(state.cache), j \in 1..Len(state'.cache) :
          state.cache[i].key = state'.cache[j].key
          => state.cache[i].val = state'.cache[j].val]_vars

\* the points in all staging buffers
StagedTotal(s) == Len(s.staging_buffers["Ecg"]) + Len(s.staging_buffers["Hr"])
\* the step folds staging into the cache: the writer ends an arm with staging
\* empty that had points staged or adds one
FoldsStaging ==
    /\ WriterEndsArm
    /\ StagedTotal(state') = 0
    /\ StagedTotal(state) > 0 \/ w_cmd.type = "AddPoint"

\* C35: whenever the state mutex is free memory_usage is 16 bytes times the
\* number of staged points; only the writer changes it, by 16 for an AddPoint
\* it stages or to 0 when it folds staging into the cache, and every fold
\* leaves it 0; reads, start_recording, stop_recording and a failed flush
\* leave it as it is
C35_MemoryAccounting ==
    [][/\ mutex' = "free" => state'.memory_usage = 16 * StagedTotal(state')
       /\ FoldsStaging => state'.memory_usage = 0
       /\ state'.memory_usage # state.memory_usage
            => /\ WriterEndsArm
               /\ \/ /\ w_cmd.type = "AddPoint"
                     /\ state'.memory_usage = state.memory_usage + 16
                     /\ StagedTotal(state') = StagedTotal(state) + 1
                  \/ FoldsStaging
       /\ (WriterEndsArm /\ w_last'.flushed = "failed" /\ w_cmd.type # "AddPoint")
            => state'.memory_usage = state.memory_usage]_vars
C35_Witness ==
    /\ mutex = "free"
    /\ w_last.flushed = "failed"
    /\ state.memory_usage = 16 /\ StagedTotal(state) = 1
    /\ state.cache # <<>>

\* C36: while write_to_disk is set and the writer is between commands the
\* staged bytes are below the recording threshold (100,000 bytes, taken at
\* the scale of the model)
C36_BoundedStagingWhileRecording ==
    (state.write_to_disk /\ w_pc = "recv" /\ mutex = "free")
    => state.memory_usage < RecordingFlushBytes \div ThresholdScale

\* the parts of the shape of an interpolated output: time order, inside the
\* window, every real point strictly inside the window kept
InterpolatedInOrder(out) == \A k \in 1..(Len(out) - 1) : out[k].time <= out[k + 1].time
InterpolatedInside(out, start, e) ==
    \A k \in 1..Len(out) : start <= out[k].time /\ out[k].time <= e
KeepsRealPoints(out, log, start, e) ==
    \A i \in 1..Len(log) :
        (start < log[i].time /\ log[i].time < e) => \E k \in 1..Len(out) : out[k] = log[i]

\* C37 as stated: with at least two points selected the output of
\* range_from_time_interpolated is in non-decreasing time order, every point
\* of it lies in [start_time, end_time], every real point strictly inside the
\* window appears with its own value, and at most one point is at start_time
\* and at most one at end_time; with fewer than two points selected the output
\* is that of range_from_time_with_fill
C37_InterpolatedShape ==
    fn_result.of = "range_from_time_interpolated" =>
        LET log == fn_state.appended
            sel == points_for_interp_of(log, fn_result.end_time, fn_result.duration_ns)
            start == WindowStart(fn_result)
            e == fn_result.end_time
            out == fn_result.out
        IN  IF Len(sel) >= 2
            THEN /\ InterpolatedInOrder(out)
                 /\ InterpolatedInside(out, start, e)
                 /\ KeepsRealPoints(out, log, start, e)
                 /\ Cardinality(PointsAt(out, start)) <= 1
                 /\ Cardinality(PointsAt(out, e)) <= 1
            ELSE out = range_from_time_with_fill(log, e, fn_result.duration_ns)

\* C37 (amended): the same, with the bound of one point at each edge for a
\* window of positive width; in a window of zero width the two edges are one
\* time and carry at most two points
C37_InterpolatedShapeInWindow ==
    fn_result.of = "range_from_time_interpolated" =>
        LET log == fn_state.appended
            sel == points_for_interp_of(log, fn_result.end_time, fn_result.duration_ns)
            start == WindowStart(fn_result)
            e == fn_result.end_time
            out == fn_result.out
        IN  IF Len(sel) >= 2
            THEN /\ InterpolatedInOrder(out)
                 /\ InterpolatedInside(out, start, e)
                 /\ KeepsRealPoints(out, log, start, e)
                 /\ start < e => /\ Cardinality(PointsAt(out, start)) <= 1
                                 /\ Cardinality(PointsAt(out, e)) <= 1
                 /\ start = e => Len(out) <= 2
            ELSE out = range_from_time_with_fill(log, e, fn_result.duration_ns)
C37_Witness ==
    /\ fn_result.of = "range_from_time_interpolated"
    /\ fn_result.interpolate_end
    /\ fn_state.appended = <<[time |-> 0, value |-> 0], [time |-> 2, value |-> 10],
                             [time |-> 4, value |-> 0]>>
    /\ fn_result.end_time = 3 /\ fn_result.duration_ns = 2
    /\ fn_result.target_interval_ns = 1
    /\ fn_result.out = <<[time |-> 1, value |-> 5], [time |-> 2, value |-> 10],
                         [time |-> 2, value |-> 10], [time |-> 3, value |-> 5]>>

\* the updates a Tick drained after the last Disconnected status among them
IsDisconnected(update) == update.type = "ConnectionStatus" /\ update.status = "Disconnected"
AfterLastDisconnected(drained) ==
    LET at == {k \in 1..Len(drained) : IsDisconnected(drained[k])}
        last == CHOOSE k \in at : \A j \in at : j <= k
    IN  SubSeq(drained, last + 1, Len(drained))
RECURSIVE SamplesIn(_, _)
SamplesIn(updates, kind) ==
    IF updates = <<>> THEN 0
    ELSE (IF Head(updates).type = "MeasurementData"
          THEN count_samples(Head(updates).data, kind) ELSE 0)
         + SamplesIn(Tail(updates), kind)

\* C33: a Tick that handles a Disconnected status leaves the seven series as
\* the updates queued after it build them from empty series (empty, with the
\* default rates, when none follows), whatever was queued or held before it,
\* and leaves the connection state Disconnected unless a later status changes
\* it
C33_DisconnectedResets ==
    (/\ fn_result.of = "Tick"
     /\ \E k \in 1..Len(fn_result.drained) : IsDisconnected(fn_result.drained[k]))
    => LET later == AfterLastDisconnected(fn_result.drained)
           ch == fn_state.channels
       IN  /\ Len(ch.ecg.data) = SamplesIn(later, "Ecg")
           /\ Len(ch.acc_x.data) = SamplesIn(later, "Acc")
           /\ Len(ch.acc_y.data) = SamplesIn(later, "Acc")
           /\ Len(ch.acc_z.data) = SamplesIn(later, "Acc")
           /\ Len(ch.hr.data) = Len(SelectSeq(later, LAMBDA u : u.type = "HeartRate"))
           /\ Len(ch.rr.data) <= Len(ch.hr.data)
           /\ Len(ch.hrv.data) <= Len(ch.hr.data)
           /\ later = <<>> => ch = UiChannels_new
           /\ (\A k \in 1..Len(later) : later[k].type # "SampleRateConfig")
                => /\ ch.ecg.sample_rate = ECG_SAMPLE_RATE_HZ
                   /\ ch.acc_x.sample_rate = ACC_SAMPLE_RATE_HZ
                   /\ ch.acc_y.sample_rate = ACC_SAMPLE_RATE_HZ
                   /\ ch.acc_z.sample_rate = ACC_SAMPLE_RATE_HZ
           /\ (\A k \in 1..Len(later) : later[k].type # "ConnectionStatus")
                => fn_state.connection_state = "Disconnected"
           /\ fn_state.receiver = <<>>
C33_Witness ==
    /\ fn_result.of = "Tick"
    /\ Len(fn_result.drained) = 2
    /\ fn_result.drained[1].type = "MeasurementData"
    /\ IsDisconnected(fn_result.drained[2])
    /\ fn_result.before.connection_state = "Connected"
    /\ fn_result.before.channels.ecg.data # <<>>
    /\ fn_result.before.channels.ecg.sample_rate = NANOS_PER_SECOND
    /\ fn_state.channels = UiChannels_new
    /\ fn_state.connection_state = "Disconnected"

\* the updates of a Tick that can change the data of a series of the kind
Touches(update, kind) ==
    \/ IsDisconnected(update)
    \/ update.type = "MeasurementData" /\ count_samples(update.data, kind) > 0

\* C39: the three accelerometer series have the same stamps and the same
\* rate, point i of each axis carrying its component of the same sample, and
\* a Tick whose updates hold no ECG sample and no reset leaves the ECG data as
\* it was, one without accelerometer sample and reset the accelerometer data
C39_AxesInStep ==
    fn_state.of = "ZenSignal" =>
        LET ch == fn_state.channels
        IN  /\ TimesOf(ch.acc_x) = TimesOf(ch.acc_y)
            /\ TimesOf(ch.acc_y) = TimesOf(ch.acc_z)
            /\ ch.acc_x.sample_rate = ch.acc_y.sample_rate
            /\ ch.acc_y.sample_rate = ch.acc_z.sample_rate
            /\ \A i \in 1..Len(ch.acc_x.data) :
                  \E sample \in PmdSamples :
                     /\ sample.kind = "Acc"
                     /\ ch.acc_x.data[i].value = sample.val[1]
                     /\ ch.acc_y.data[i].value = sample.val[2]
                     /\ ch.acc_z.data[i].value = sample.val[3]
            /\ fn_result.of = "Tick" =>
                  LET drained == fn_result.drained
                      was == fn_result.before.channels
                  IN  /\ (\A k \in 1..Len(drained) : ~Touches(drained[k], "Ecg"))
                           => ch.ecg.data = was.ecg.data
                      /\ (\A k \in 1..Len(drained) : ~Touches(drained[k], "Acc"))
                           => /\ ch.acc_x.data = was.acc_x.data
                              /\ ch.acc_y.data = was.acc_y.data
                              /\ ch.acc_z.data = was.acc_z.data
C39_Witness ==
    /\ fn_state.of = "ZenSignal"
    /\ fn_result.of = "Tick"
    /\ Len(fn_result.drained) = 1
    /\ fn_result.drained[1].type = "MeasurementData"
    /\ count_samples(fn_result.drained[1].data, "Ecg") = 0
    /\ Len(fn_result.before.channels.acc_x.data) = 1
    /\ Len(fn_state.channels.acc_z.data) = 2
    /\ fn_state.channels.acc_z.data[2].time > fn_state.channels.acc_z.data[1].time
    /\ fn_state.channels.ecg.data # <<>>
    /\ fn_state.channels.ecg.data = fn_result.before.channels.ecg.data

\* task t was started and the manager has processed a Disconnect after the
\* Connect that started it
DisconnectFollows(cm, t) ==
    /\ t <= Len(cm.tasks)
    /\ \E i, j \in 1..Len(cm.processed) :
          /\ i < j
          /\ cm.processed[i] = "Connect"
          /\ ConnectsOf(SubSeq(cm.processed, 1, i)) = t
          /\ cm.processed[j] = "Disconnect"
TaskEnded(cm, t) ==
    /\ t <= Len(cm.tasks)
    /\ cm.tasks[t].pc = "ended"
    /\ cm.tasks[t].status \in {"Disconnected", "Error"}

\* C40: every task started by a Connect that a processed Disconnect follows
\* eventually has sent Disconnected or Error and ended
C40_GracefulDisconnection ==
    \A t \in 1..MaxConnects :
        (fn_state.of = "ConnectionManager" /\ DisconnectFollows(fn_state, t))
        ~> TaskEnded(fn_state, t)

====
